---- MODULE Spec2Model ----
(***************************************************************************)
(* Command dispatch and invocation framework of reminder-rs                *)
(* (src/src/framework.rs, src/src/main.rs).                                *)
(*                                                                         *)
(*   SpecHandle  one CommandInvoke handle driven by defer / respond calls  *)
(*   Spec        RegexFramework::execute: registry lookup, hook chain,     *)
(*               admission guard, command body, release                    *)
(*   SpecGuard   the same execute steps under a ticking clock, for the     *)
(*               LimitExecutors debounce                                   *)
(*   SpecLive    SpecGuard with every spawned dispatch task scheduled      *)
(*               fairly                                                    *)
(*   SpecRace    the dispatches of a single actor racing for the guard     *)
(*   SpecLock    execute with the acquisition and the release of the       *)
(*               guard map's RwLock as steps of their own                  *)
(***************************************************************************)
EXTENDS Integers, Sequences, FiniteSets, TLC

VARIABLES
    \* ---- one CommandInvoke handle (SpecHandle) ----
    hnd,            \* the handle: [model, already_responded, deferred]
    trace,          \* history: one entry per defer / respond call made on hnd
    crashed,        \* TRUE once a call on hnd has panicked (defer's unwrap)
    \* ---- the framework and its dispatches (Spec, SpecGuard) ----
    commands_map,   \* RegexFramework.commands_map: name -> command
    hooks,          \* RegexFramework.hooks: the globally registered hooks
    executing,      \* CurrentlyExecuting: HashMap<UserId, Instant>
    lock,           \* the RwLock around executing: who holds it, and how
    now,            \* the monotonic clock, in whole seconds
    pc,             \* per dispatch: where execute() stands
    pos,            \* per dispatch: how many hooks of the chain have returned
    interaction,    \* per dispatch: the trigger, [name, user]
    args,           \* per dispatch: the CommandOptions built for it
    invoke,         \* per dispatch: its CommandInvoke handle
    calls,          \* per dispatch: history of the outbound calls of its handle
    log,            \* per dispatch: history of the steps execute() performed
    \* ---- one call of a function of the framework (SpecPopulate, SpecMatch) ----
    input,          \* the arguments of the call
    output          \* its result, <<>> until the call is made

hvars == <<hnd, trace, crashed>>
fvars == <<commands_map, hooks>>
dvars ==
    <<executing, lock, now, pc, pos, interaction, args, invoke, calls, log>>
pvars == <<input, output>>
vars == <<hnd, trace, crashed, commands_map, hooks, executing, lock, now, pc,
          pos, interaction, args, invoke, calls, log, input, output>>

(***************************************************************************)
(* Bounds of the model.                                                    *)
(***************************************************************************)
MaxPad == 5             \* characters after "$" in a prefix of SpecMatch
MaxLeaves == 2          \* leaf options of a payload of SpecPopulate
MaxOps == 3             \* calls made on the single handle of SpecHandle
NumDispatches == 2      \* concurrent dispatches in Spec
NumGuardDispatches == 3 \* concurrent dispatches in SpecGuard
MaxTime == 4            \* the clock of SpecGuard runs from 0 to MaxTime
NumLiveDispatches == 2  \* concurrent dispatches in SpecLive
NumRaceDispatches == 3  \* concurrent dispatches in SpecRace
NumEntryDispatches == 2 \* triggers of SpecEntry
NumLockDispatches == 2  \* concurrent dispatches in SpecLock

Users == {"u1", "u2"}

(***************************************************************************)
(* CommandInvoke (framework.rs:88-263).                                    *)
(***************************************************************************)
InvokeModel == {"Slash", "Component"}

\* CommandInvoke::slash
slash == [model |-> "Slash", already_responded |-> FALSE, deferred |-> FALSE]

\* CommandInvoke::component
component ==
    [model |-> "Component", already_responded |-> FALSE, deferred |-> FALSE]

\* The outbound platform operations, by the serenity call and response kind:
\*   ack_deferred  create_interaction_response(DeferredChannelMessageWithSource)
\*   ack_message   create_interaction_response(ChannelMessageWithSource)
\*   ack_update    create_interaction_response(UpdateMessage)
\*   edit          edit_original_interaction_response
\*   followup      create_followup_message
CallKinds == {"ack_deferred", "ack_message", "ack_update", "edit", "followup"}

Call(kind, ok) == [kind |-> kind, ok |-> ok]

\* A mutation of respond_call: the edit and the follow-up arms exchanged.
respond_call_swapped(h) ==
    IF h.model = "Slash"
    THEN IF h.already_responded THEN "edit"
         ELSE IF h.deferred THEN "followup"
         ELSE "ack_message"
    ELSE "ack_update"

\* The platform call respond() makes, chosen by the match on self.model and
\* the two flags (framework.rs:172-257).
respond_call(h) ==
    IF h.model = "Slash"
    THEN IF h.already_responded THEN "followup"
         ELSE IF h.deferred THEN "edit"
         ELSE "ack_message"
    ELSE "ack_update"

\* A mutation of respond: a successful respond clears the deferred flag.
respond_clears_deferred(h, ok) ==
    [h      |-> IF ok THEN [h EXCEPT !.already_responded = TRUE,
                                     !.deferred = FALSE]
                ELSE h,
     issued |-> <<Call(respond_call(h), ok)>>,
     err    |-> ~ok,
     panic  |-> FALSE]

\* A mutation of respond: already_responded is set whatever the call returned.
respond_sets_flag_on_error(h, ok) ==
    [h      |-> [h EXCEPT !.already_responded = TRUE],
     issued |-> <<Call(respond_call(h), ok)>>,
     err    |-> ~ok,
     panic  |-> FALSE]

\* CommandInvoke::respond. ok is the platform's answer to the one call made.
\* The `?` returns the error before already_responded is set.
respond(h, ok) ==
    [h      |-> IF ok THEN [h EXCEPT !.already_responded = TRUE] ELSE h,
     issued |-> <<Call(respond_call(h), ok)>>,
     err    |-> ~ok,
     panic  |-> FALSE]

\* The condition under which defer() sends the placeholder (framework.rs:111).
defer_guard(h) == ~h.deferred

\* CommandInvoke::defer. Both arms of the match send the same placeholder;
\* the result is unwrapped, so a failed call panics in the caller's task.
defer(h, ok) ==
    IF defer_guard(h)
    THEN [h      |-> IF ok THEN [h EXCEPT !.deferred = TRUE] ELSE h,
          issued |-> <<Call("ack_deferred", ok)>>,
          err    |-> FALSE,
          panic  |-> ~ok]
    ELSE [h |-> h, issued |-> <<>>, err |-> FALSE, panic |-> FALSE]

\* The state of the response state machine a handle is in.
HandleState(h) ==
    IF h.already_responded THEN "Responded"
    ELSE IF h.deferred THEN "Deferred"
    ELSE "Fresh"

(***************************************************************************)
(* SpecHandle: defer and respond called on one handle, the platform        *)
(* answering each call with success or failure.                            *)
(***************************************************************************)
HandleOps == {"defer", "respond"}

Apply(op, h, ok) == IF op = "defer" THEN defer(h, ok) ELSE respond(h, ok)

TraceEntry(op, ok, pre, r) ==
    [op |-> op, ok |-> ok, pre |-> pre, post |-> r.h, issued |-> r.issued,
     err |-> r.err, panic |-> r.panic]

\* One call on the handle: op is applied to hnd, the platform answering ok.
HandleCall(op, ok) ==
    LET r == Apply(op, hnd, ok)
    IN /\ hnd' = r.h
       /\ trace' = Append(trace, TraceEntry(op, ok, hnd, r))
       /\ crashed' = r.panic

Defer(ok) ==
    /\ ~crashed
    /\ Len(trace) < MaxOps
    /\ HandleCall("defer", ok)
    /\ UNCHANGED <<fvars, dvars, pvars>>

Respond(ok) ==
    /\ ~crashed
    /\ Len(trace) < MaxOps
    /\ HandleCall("respond", ok)
    /\ UNCHANGED <<fvars, dvars, pvars>>

NoInput ==
    /\ input = <<>>
    /\ output = <<>>

NoExecute ==
    /\ commands_map = <<>>
    /\ hooks = <<>>
    /\ executing = <<>>
    /\ lock = [readers |-> {}, writer |-> {}]
    /\ now = 0
    /\ pc = <<>>
    /\ pos = <<>>
    /\ interaction = <<>>
    /\ args = <<>>
    /\ invoke = <<>>
    /\ calls = <<>>
    /\ log = <<>>

NoDispatches == NoExecute /\ NoInput

InitHandle ==
    /\ hnd \in {slash, component}
    /\ trace = <<>>
    /\ crashed = FALSE
    /\ NoDispatches

NextHandle ==
    \/ \E ok \in BOOLEAN : Defer(ok)
    \/ \E ok \in BOOLEAN : Respond(ok)

SpecHandle == InitHandle /\ [][NextHandle]_vars

\* The outbound calls of the handle so far, in order.
RECURSIVE Issued(_)
Issued(t) ==
    IF t = <<>> THEN <<>>
    ELSE Issued(SubSeq(t, 1, Len(t) - 1)) \o t[Len(t)].issued

Kinds(cs) == [i \in 1..Len(cs) |-> cs[i].kind]

OpsOf(t) == [i \in 1..Len(t) |-> t[i].op]

AllOk(t) == \A i \in 1..Len(t) : t[i].ok

(***************************************************************************)
(* Claims about the handle, checked under SpecHandle.                      *)
(***************************************************************************)
AckKinds == {"ack_deferred", "ack_message", "ack_update"}

\* The operation respond is to select from each state of the handle.
ExpectedRespondCall(state) ==
    CASE state = "Fresh" -> "ack_message"
      [] state = "Deferred" -> "edit"
      [] state = "Responded" -> "followup"

\* C3: on a command-trigger handle respond issues exactly one call, chosen by
\* the state: the initial response from Fresh, an edit of the placeholder from
\* Deferred, a follow-up from Responded, and a successful respond leaves the
\* handle Responded. With every call succeeding, [respond] issues one initial
\* response and nothing else, [defer, respond] issues no initial response and
\* one edit, [respond, respond] issues one initial response then one follow-up.
C3_RespondSelectsByState ==
    hnd.model = "Slash" =>
        /\ \A i \in 1..Len(trace) :
              trace[i].op = "respond" =>
                 /\ trace[i].issued =
                       <<Call(ExpectedRespondCall(HandleState(trace[i].pre)),
                              trace[i].ok)>>
                 /\ trace[i].ok => HandleState(trace[i].post) = "Responded"
        /\ AllOk(trace) =>
              /\ OpsOf(trace) = <<"respond">> =>
                    Kinds(Issued(trace)) = <<"ack_message">>
              /\ OpsOf(trace) = <<"defer", "respond">> =>
                    Kinds(Issued(trace)) = <<"ack_deferred", "edit">>
              /\ OpsOf(trace) = <<"respond", "respond">> =>
                    Kinds(Issued(trace)) = <<"ack_message", "followup">>

C3_Witness ==
    /\ hnd.model = "Slash"
    /\ AllOk(trace)
    /\ OpsOf(trace) = <<"defer", "respond", "respond">>
    /\ Kinds(Issued(trace)) = <<"ack_deferred", "edit", "followup">>

\* C4: over any sequence of defer and respond calls on one handle, at most
\* one acknowledging create-interaction-response call succeeds.
C4_NoDoubleAck ==
    LET cs == Issued(trace)
    IN Cardinality({i \in 1..Len(cs) : cs[i].kind \in AckKinds /\ cs[i].ok}) <= 1

\* C5: defer on a handle that is Deferred or Responded issues no call and
\* leaves the flags as they were; on a Fresh handle it issues exactly one
\* placeholder acknowledgement and, the call succeeding, the handle becomes
\* Deferred.
C5_DeferIdempotent ==
    \A i \in 1..Len(trace) :
        trace[i].op = "defer" =>
           /\ HandleState(trace[i].pre) \in {"Deferred", "Responded"} =>
                 /\ trace[i].issued = <<>>
                 /\ trace[i].post = trace[i].pre
           /\ HandleState(trace[i].pre) = "Fresh" =>
                 /\ trace[i].issued = <<Call("ack_deferred", trace[i].ok)>>
                 /\ trace[i].ok => HandleState(trace[i].post) = "Deferred"

\* The class of an outbound operation, whichever platform call carries it.
CallClass(kind) ==
    CASE kind = "ack_deferred" -> "placeholder"
      [] kind \in {"ack_message", "ack_update"} -> "initial"
      [] kind = "edit" -> "edit"
      [] kind = "followup" -> "followup"

Classes(cs) == [i \in 1..Len(cs) |-> CallClass(cs[i].kind)]

\* The states passed through and the classes of operation chosen, per call.
Course(t) ==
    [i \in 1..Len(t) |->
        [state |-> HandleState(t[i].post), classes |-> Classes(t[i].issued)]]

\* The same calls, with the same platform answers, made on handle h.
RECURSIVE Rerun(_, _)
Rerun(h, t) ==
    IF t = <<>> THEN <<>>
    ELSE LET r == Apply(t[1].op, h, t[1].ok)
         IN <<[state |-> HandleState(r.h), classes |-> Classes(r.issued)]>>
               \o Rerun(r.h, Tail(t))

\* C6: for every sequence of defer and respond calls a component handle
\* passes through the same states and chooses the same class of operation as
\* a command-trigger handle given the same calls.
C6_VariantsAgree ==
    hnd.model = "Component" => Course(trace) = Rerun(slash, trace)

StateRank(state) ==
    CASE state = "Fresh" -> 0
      [] state = "Deferred" -> 1
      [] state = "Responded" -> 2

\* C14: no defer or respond call, successful or failed, moves a handle
\* backward among Fresh, Deferred, Responded, and none resets the deferred
\* or the already_responded flag from true to false.
C14_ForwardOnly ==
    \A i \in 1..Len(trace) :
        /\ StateRank(HandleState(trace[i].pre))
              <= StateRank(HandleState(trace[i].post))
        /\ trace[i].pre.deferred => trace[i].post.deferred
        /\ trace[i].pre.already_responded => trace[i].post.already_responded
        /\ i > 1 => trace[i].pre = trace[i - 1].post

C14_Witness ==
    /\ Len(trace) = 3
    /\ OpsOf(trace) = <<"defer", "respond", "respond">>
    /\ trace[1].ok /\ trace[2].ok /\ ~trace[3].ok
    /\ HandleState(trace[1].post) = "Deferred"
    /\ HandleState(trace[3].post) = "Responded"
    /\ hnd.deferred /\ hnd.already_responded

\* C15: a respond whose platform call fails returns the error, leaves both
\* flags as they were, and has issued exactly one call; a respond made next
\* issues the same kind of operation again; every respond, failed or not,
\* issues exactly one call.
C15_FailedRespondKeepsState ==
    \A i \in 1..Len(trace) :
        trace[i].op = "respond" =>
           /\ Len(trace[i].issued) = 1
           /\ trace[i].issued[1].ok = trace[i].ok
           /\ trace[i].err = ~trace[i].ok
           /\ ~trace[i].panic
           /\ ~trace[i].ok =>
                 /\ trace[i].post = trace[i].pre
                 /\ (i < Len(trace) /\ trace[i + 1].op = "respond") =>
                        /\ trace[i + 1].pre = trace[i].pre
                        /\ trace[i + 1].issued[1].kind = trace[i].issued[1].kind

C15_Witness ==
    /\ hnd.model = "Slash"
    /\ OpsOf(trace) = <<"defer", "respond", "respond">>
    /\ trace[1].ok /\ ~trace[2].ok /\ trace[3].ok
    /\ Kinds(Issued(trace)) = <<"ack_deferred", "edit", "edit">>
    /\ trace[2].err

\* C16: a defer whose placeholder acknowledgement fails returns the failure
\* to its caller as an error: it does not panic, and the handle stays in the
\* state it was in.
C16_DeferFailurePropagated ==
    \A i \in 1..Len(trace) :
        (trace[i].op = "defer" /\ trace[i].issued # <<>> /\ ~trace[i].ok) =>
           /\ trace[i].err
           /\ ~trace[i].panic
           /\ trace[i].post = trace[i].pre

(***************************************************************************)
(* The framework: registry and hooks (framework.rs:481-585).               *)
(***************************************************************************)
Range(f) == {f[x] : x \in DOMAIN f}

\* Two registered commands. A Command carries its names (names[1] is the
\* primary name, Rust's names[0]), its own hooks and supports_dm.
REMIND_COMMAND ==
    [names |-> <<"remind", "r">>,
     hooks |-> <<"check_guild", "check_role">>,
     supports_dm |-> FALSE]

INFO_COMMAND == [names |-> <<"info">>, hooks |-> <<>>, supports_dm |-> TRUE]

\* The hooks main() registers, in the order of its add_hook calls
\* (main.rs:319-320).
GlobalHookOrder == <<"check_self_permissions", "macro_check">>

\* RegexFramework::add_hook.
add_hook(hs, fun) == Append(hs, fun)

\* RegexFramework::add_command: every name of the command is a key.
add_command(cm, command) ==
    [n \in DOMAIN cm \cup Range(command.names) |->
        IF n \in Range(command.names) THEN command ELSE cm[n]]

\* Option<T>: None, or Some of a value.
None == <<>>

Some(x) == <<x>>

\* CommandOptions::new. options is the HashMap<String, OptionValue>, a
\* function from the keys present to their values.
\* A mutation: the command field is the last name of the command.
CommandOptions_new_alias(command) ==
    [command |-> command.names[Len(command.names)], subcommand |-> None,
     subcommand_group |-> None, options |-> <<>>]

CommandOptions_new(command) ==
    [command |-> command.names[1], subcommand |-> None,
     subcommand_group |-> None, options |-> <<>>]

(***************************************************************************)
(* CommandOptions::populate (framework.rs:346-446). An option node of the  *)
(* payload is [kind, name, value, options]: value is the Option<Value> of  *)
(* the node, a JSON value, and options are its child nodes.                *)
(***************************************************************************)
JStr(x) == [json |-> "string", v |-> x]

JInt(n) == [json |-> "int", v |-> n]

JFloat(x) == [json |-> "float", v |-> x]

JBool(b) == [json |-> "bool", v |-> b]

\* serde_json::Value::as_str, as_i64, as_u64, as_f64, as_bool.
as_str(j) == IF j.json = "string" THEN Some(j.v) ELSE None

as_i64(j) == IF j.json = "int" THEN Some(j.v) ELSE None

as_u64(j) == IF j.json = "int" /\ j.v >= 0 THEN Some(j.v) ELSE None

as_f64(j) == IF j.json \in {"int", "float"} THEN Some(j.v) ELSE None

as_bool(j) == IF j.json = "bool" THEN Some(j.v) ELSE None

\* str::parse::<u64>().ok(), on the strings of the model.
parse_u64(x) ==
    CASE x = "42" -> Some(42)
      [] x = "7" -> Some(7)
      [] OTHER -> None

\* The value a leaf arm of match_option builds, or None where one of its
\* unwrap() calls meets None and panics.
ParsedId(value) ==
    IF value = None \/ as_str(value[1]) = None THEN None
    ELSE parse_u64(as_str(value[1])[1])

Typed(type, o) == IF o = None THEN None ELSE Some([type |-> type, v |-> o[1]])

extract(kind, value) ==
    CASE kind = "String" ->
            Typed("String", IF value = None THEN None ELSE as_str(value[1]))
      [] kind = "Integer" ->
            Typed("Integer", IF value = None THEN None ELSE as_i64(value[1]))
      [] kind = "Boolean" ->
            Typed("Boolean", IF value = None THEN None ELSE as_bool(value[1]))
      [] kind = "User" -> Typed("User", ParsedId(value))
      [] kind = "Channel" -> Typed("Channel", ParsedId(value))
      [] kind = "Role" -> Typed("Role", ParsedId(value))
      [] kind = "Mentionable" ->
            Typed("Mentionable", IF value = None THEN None ELSE as_u64(value[1]))
      [] kind = "Number" ->
            Typed("Number", IF value = None THEN None ELSE as_f64(value[1]))

\* The kinds match_option has an arm for that inserts a value.
ValueKinds ==
    {"String", "Integer", "Boolean", "User", "Channel", "Role", "Mentionable",
     "Number"}

\* A mutation of HashMap::insert: a key that is present keeps its value.
insert_keeps_first(m, k, v) ==
    [x \in DOMAIN m \cup {k} |-> IF x \in DOMAIN m THEN m[x] ELSE v]

\* HashMap::insert.
insert(m, k, v) == [x \in DOMAIN m \cup {k} |-> IF x = k THEN v ELSE m[x]]

\* A mutation of the `_ => {}` arm: the node's name becomes a key.
unrecognised_inserted(option, st) ==
    [st EXCEPT !.opts.options =
                   insert(@, option.name, [type |-> "Unknown", v |-> 0])]

\* A mutation of the `_ => {}` arm: it panics like an ill-typed value.
unrecognised_aborts(option, st) == [st EXCEPT !.panic = TRUE]

\* The `_ => {}` arm of match_option.
unrecognised(option, st) == st

\* match_option and its `for opt in option.options` loops. st is the
\* CommandOptions being filled and whether an unwrap() has panicked.
RECURSIVE match_option(_, _), match_options(_, _)
match_options(options, st) ==
    IF options = <<>> \/ st.panic THEN st
    ELSE match_options(Tail(options), match_option(Head(options), st))

match_option(option, st) ==
    CASE option.kind = "SubCommand" ->
            match_options(option.options,
                          [st EXCEPT !.opts.subcommand = Some(option.name)])
      [] option.kind = "SubCommandGroup" ->
            match_options(option.options,
                          [st EXCEPT !.opts.subcommand_group = Some(option.name)])
      [] option.kind \in ValueKinds ->
            LET x == extract(option.kind, option.value)
            IN IF x = None THEN [st EXCEPT !.panic = TRUE]
               ELSE [st EXCEPT !.opts.options = insert(@, option.name, x[1])]
      [] OTHER -> unrecognised(option, st)

\* CommandOptions::populate: `for option in &interaction.data.options`.
populate(self, options) ==
    match_options(options, [opts |-> self, panic |-> FALSE])

\* A mutation of hook_chain: the global hooks run first.
hook_chain_global_first(command, hs) == hs \o command.hooks

\* The hooks execute() runs, in order: the two for-loops of
\* framework.rs:733-749.
hook_chain(command, hs) == command.hooks \o hs

(***************************************************************************)
(* The admission guard: impl LimitExecutors for Context (main.rs:89-117).  *)
(***************************************************************************)
DEBOUNCE_SECS == 4

\* A mutation of check_executing: a record never denies.
check_executing_never(ex, u, t) == FALSE

\* A mutation of check_executing: a young record of any user denies.
check_executing_any(ex, u, t) ==
    \E x \in DOMAIN ex : t - ex[x] < DEBOUNCE_SECS

\* A mutation of check_executing: a record of exactly 4 s still denies.
check_executing_inclusive(ex, u, t) ==
    IF u \in DOMAIN ex THEN t - ex[u] <= DEBOUNCE_SECS ELSE FALSE

\* check_executing: a record exists and its whole seconds elapsed are < 4.
check_executing(ex, u, t) ==
    IF u \in DOMAIN ex THEN t - ex[u] < DEBOUNCE_SECS ELSE FALSE

\* set_executing: lock.insert(user, Instant::now()).
set_executing(ex, u, t) ==
    [x \in DOMAIN ex \cup {u} |-> IF x = u THEN t ELSE ex[x]]

\* A mutation of drop_executing: the record is left in the map.
drop_executing_keeps(ex, u) == ex

\* drop_executing: lock.remove(&user).
drop_executing(ex, u) == [x \in DOMAIN ex \ {u} |-> ex[x]]

\* The RwLock of CurrentlyExecuting (main.rs:73): the dispatches holding a
\* read guard and the dispatch, if any, holding the write guard.
unlocked == [readers |-> {}, writer |-> {}]

\* `currently_executing.read().await` is granted while no write guard is out.
can_read(lk) == lk.writer = {}

\* `currently_executing.write().await` is granted while no guard is out.
can_write(lk) == lk.writer = {} /\ lk.readers = {}

lock_read(lk, d) == [lk EXCEPT !.readers = @ \cup {d}]

lock_write(lk, d) == [lk EXCEPT !.writer = {d}]

\* A mutation of unlock: the guard is kept by the caller.
unlock_never(lk, d) == lk

\* The guard `lock` goes out of scope at the end of check_executing,
\* set_executing or drop_executing.
unlock(lk, d) == [readers |-> lk.readers \ {d}, writer |-> lk.writer \ {d}]

(***************************************************************************)
(* Hooks and command bodies are function pointers handed the handle        *)
(* (HookFn, SlashCommandFn: framework.rs:454-463). What one of them does   *)
(* with it is an input of a dispatch.                                      *)
(***************************************************************************)
HookBehaviours == {"continue", "halt", "defer_continue", "respond_halt"}

BodyBehaviours == {"silent", "respond", "defer"}

\* One hook invocation: the calls it makes on the handle and its HookResult.
run_hook(beh, h, ok) ==
    CASE beh = "continue" ->
            [h |-> h, issued |-> <<>>, panic |-> FALSE, result |-> "Continue"]
      [] beh = "halt" ->
            [h |-> h, issued |-> <<>>, panic |-> FALSE, result |-> "Halt"]
      [] beh = "defer_continue" ->
            LET r == defer(h, ok)
            IN [h |-> r.h, issued |-> r.issued, panic |-> r.panic,
                result |-> "Continue"]
      [] beh = "respond_halt" ->
            LET r == respond(h, ok)
            IN [h |-> r.h, issued |-> r.issued, panic |-> FALSE,
                result |-> "Halt"]

\* One command body: the calls it makes on the handle.
run_body(beh, h, ok) ==
    CASE beh = "silent" -> [h |-> h, issued |-> <<>>, panic |-> FALSE]
      [] beh = "respond" ->
            LET r == respond(h, ok)
            IN [h |-> r.h, issued |-> r.issued, panic |-> FALSE]
      [] beh = "defer" ->
            LET r == defer(h, ok)
            IN [h |-> r.h, issued |-> r.issued, panic |-> r.panic]

(***************************************************************************)
(* RegexFramework::execute (framework.rs:723-763), one action per await    *)
(* point. pc of a dispatch:                                                *)
(*   idle      not yet delivered                                           *)
(*   hooks     running the hook chain; pos hooks have returned Continue    *)
(*   set       check_executing returned false; set_executing comes next    *)
(*   body      the record is written; the command body comes next          *)
(*   drop      the body has returned; drop_executing comes next            *)
(*   done      returned after drop_executing                               *)
(*   halted    returned because a hook said Halt                           *)
(*   denied    returned because check_executing returned true              *)
(*   panicked  the task panicked (expect on the lookup, unwrap in populate *)
(*             or in defer)                                                *)
(* and, for a trigger that does not reach execute():                       *)
(*   discarded interaction_create returned: the command has no guild id    *)
(*   routed    interaction_create handed a component to its own handler    *)
(*   ignored   interaction_create does nothing with the interaction kind   *)
(*   returned  run_command_from_options returned                           *)
(***************************************************************************)
Dispatches == DOMAIN pc

\* An entry of a dispatch's log. A check entry also records what the check
\* met: in with, the dispatches of the same user in flight at that moment;
\* in young, whether the map held a record of the user younger than the
\* debounce window; in held, whether it held a record of the user at all; in
\* running, the dispatches of the same user that had written their record
\* and whose body had not returned; in finished, those that had returned
\* after their drop_executing.
Entry(step, what, res) ==
    [step |-> step, what |-> what, res |-> res, with |-> {}, young |-> FALSE,
     held |-> FALSE, running |-> {}, finished |-> {}]

\* The hook-result match of the two loops: Halt returns, Continue goes on.
\* A mutation: Halt is treated like Continue.
after_hook_ignores_halt(result) == "hooks"

\* A mutation: on Halt the dispatch goes to drop_executing before returning.
after_hook_releases(result) == IF result = "Halt" THEN "drop" ELSE "hooks"

after_hook(result) == IF result = "Halt" THEN "halted" ELSE "hooks"

\* `if !ctx.check_executing(user_id).await { ... }` has no else branch.
\* A mutation: the result of the check is ignored.
after_check_ignored(busy) == "set"

\* A mutation: an admitted dispatch goes to the body without set_executing.
after_check_skips_set(busy) == IF busy THEN "denied" ELSE "body"

after_check(busy) == IF busy THEN "denied" ELSE "set"

\* `.get(&interaction.data.name).expect(..)`: a name that is not in the
\* registry panics. A mutation: execute() returns quietly instead.
after_lookup_returns(found) == IF found THEN "hooks" ELSE "halted"

after_lookup(found) == IF found THEN "hooks" ELSE "panicked"

\* `CommandOptions::new(command).populate(&interaction)`: an unwrap() that
\* panics in populate unwinds execute(). A mutation: execute() goes on with
\* the options extracted so far.
after_populate_omits(panic) == "hooks"

after_populate(panic) == IF panic THEN "panicked" ELSE "hooks"

\* Users are interchangeable, so they are named in the order of their first
\* trigger: a trigger comes from a user seen before or from the next new one.
Seen == {interaction[e].user : e \in {x \in Dispatches : pc[x] # "idle"}}

NextUsers ==
    Seen \cup (IF "u1" \notin Seen THEN {"u1"}
               ELSE IF "u2" \notin Seen THEN {"u2"} ELSE {})

\* The trigger is delivered with its option tree: registry lookup,
\* CommandOptions::new, populate, CommandInvoke::slash. Dispatches are
\* numbered in the order of delivery.
StartWith(d, u, name, options, guild_id) ==
    /\ pc[d] = "idle"
    /\ \A e \in Dispatches : e < d => pc[e] # "idle"
    /\ u \in NextUsers
    /\ interaction' = [interaction EXCEPT ![d] =
                           [name |-> name, user |-> u, options |-> options,
                            kind |-> "ApplicationCommand", guild_id |-> guild_id]]
    /\ IF name \in DOMAIN commands_map
       THEN LET r == populate(CommandOptions_new(commands_map[name]), options)
                next == IF after_lookup(TRUE) = "hooks"
                        THEN after_populate(r.panic) ELSE after_lookup(TRUE)
            IN /\ args' = IF next = "hooks" THEN [args EXCEPT ![d] = r.opts]
                          ELSE args
               /\ invoke' = [invoke EXCEPT ![d] = slash]
               /\ pc' = [pc EXCEPT ![d] = next]
               /\ log' = [log EXCEPT ![d] =
                             <<Entry("populate", name,
                                     IF r.panic THEN "panic" ELSE "ok")>>]
       ELSE /\ pc' = [pc EXCEPT ![d] = after_lookup(FALSE)]
            /\ log' = [log EXCEPT ![d] = <<Entry("lookup", name, "panic")>>]
            /\ UNCHANGED <<args, invoke>>
    /\ UNCHANGED <<hvars, fvars, pvars, lock, executing, now, pos, calls>>

\* A trigger without options, from a guild.
Start(d, u, name) == StartWith(d, u, name, <<>>, Some("g1"))

Chain(d) == hook_chain(commands_map[interaction[d].name], hooks)

\* The next hook of the chain is awaited.
Hook(d, beh, ok) ==
    /\ pc[d] = "hooks"
    /\ pos[d] < Len(Chain(d))
    /\ LET hook == Chain(d)[pos[d] + 1]
           r == run_hook(beh, invoke[d], ok)
       IN /\ invoke' = [invoke EXCEPT ![d] = r.h]
          /\ calls' = [calls EXCEPT ![d] = @ \o r.issued]
          /\ IF r.panic
             THEN /\ pc' = [pc EXCEPT ![d] = "panicked"]
                  /\ log' = [log EXCEPT ![d] = Append(@, Entry("hook", hook, "panic"))]
                  /\ pos' = pos
             ELSE /\ pc' = [pc EXCEPT ![d] = after_hook(r.result)]
                  /\ log' = [log EXCEPT ![d] = Append(@, Entry("hook", hook, r.result))]
                  /\ pos' = [pos EXCEPT ![d] = @ + 1]
    /\ UNCHANGED <<hvars, fvars, pvars, lock, executing, now, interaction, args>>

\* The dispatches of the same user that have passed their own admission
\* check and whose body has not returned yet.
InFlight(d) ==
    {e \in Dispatches \ {d} :
        /\ pc[e] \in {"set", "setting", "body"}
        /\ interaction[e].user = interaction[d].user}

\* The dispatches of the same user that have returned from execute() after
\* their drop_executing.
Finished(d) ==
    {e \in Dispatches \ {d} :
        pc[e] = "done" /\ interaction[e].user = interaction[d].user}

\* The dispatches of the same user that have written their record and whose
\* body has not returned yet.
Running(d) ==
    {e \in Dispatches \ {d} :
        pc[e] = "body" /\ interaction[e].user = interaction[d].user}

\* What check_executing does under its read guard: the map is read, the step
\* is logged and execute() branches on the result.
Checking(d, seen) ==
    LET u == interaction[d].user
        busy == check_executing(executing, u, now)
        e == [Entry("check", u, IF busy THEN "denied" ELSE "admitted")
                EXCEPT !.with = InFlight(d),
                       !.young = /\ u \in DOMAIN executing
                                 /\ now - executing[u] < DEBOUNCE_SECS,
                       !.held = seen /\ u \in DOMAIN executing,
                       !.running = IF seen THEN Running(d) ELSE {},
                       !.finished = IF seen THEN Finished(d) ELSE {}]
    IN /\ pc' = [pc EXCEPT ![d] = after_check(busy)]
       /\ log' = [log EXCEPT ![d] = Append(@, e)]

\* ctx.check_executing(user_id).await, after the last hook. With seen, the
\* log entry also records held, running and finished.
CheckLogged(d, seen) ==
    /\ pc[d] = "hooks"
    /\ pos[d] = Len(Chain(d))
    /\ Checking(d, seen)
    /\ UNCHANGED <<hvars, fvars, pvars, lock, executing, now, pos, interaction, args,
                   invoke, calls>>

Check(d) == CheckLogged(d, FALSE)

CheckSeen(d) == CheckLogged(d, TRUE)

\* ctx.set_executing(user_id).await.
Set(d) ==
    /\ pc[d] = "set"
    /\ executing' = set_executing(executing, interaction[d].user, now)
    /\ pc' = [pc EXCEPT ![d] = "body"]
    /\ log' = [log EXCEPT ![d] = Append(@, Entry("set", interaction[d].user, "ok"))]
    /\ UNCHANGED <<hvars, fvars, pvars, lock, now, pos, interaction, args, invoke, calls>>

\* The command body (command.fun) is awaited.
Body(d, beh, ok) ==
    /\ pc[d] = "body"
    /\ LET r == run_body(beh, invoke[d], ok)
       IN /\ invoke' = [invoke EXCEPT ![d] = r.h]
          /\ calls' = [calls EXCEPT ![d] = @ \o r.issued]
          /\ pc' = [pc EXCEPT ![d] = IF r.panic THEN "panicked" ELSE "drop"]
          /\ log' = [log EXCEPT ![d] =
                        Append(@, Entry("body", args[d].command,
                                        IF r.panic THEN "panic" ELSE "ok"))]
    /\ UNCHANGED <<hvars, fvars, pvars, lock, executing, now, pos, interaction, args>>

\* ctx.drop_executing(user_id).await.
Drop(d) ==
    /\ pc[d] = "drop"
    /\ executing' = drop_executing(executing, interaction[d].user)
    /\ pc' = [pc EXCEPT ![d] = "done"]
    /\ log' = [log EXCEPT ![d] = Append(@, Entry("drop", interaction[d].user, "ok"))]
    /\ UNCHANGED <<hvars, fvars, pvars, lock, now, pos, interaction, args, invoke, calls>>

\* A second passes.
Tick ==
    /\ now < MaxTime
    /\ now' = now + 1
    /\ UNCHANGED <<hvars, fvars, pvars, lock, executing, pc, pos, interaction, args,
                   invoke, calls, log>>

(***************************************************************************)
(* The same three guard calls with the RwLock visible: each takes its      *)
(* guard (main.rs:95, 104, 113), accesses the map, and gives the guard up  *)
(* when it returns (main.rs:98, 107, 116). pc of a dispatch in between:    *)
(*   checking  inside check_executing, holding a read guard                *)
(*   setting   inside set_executing, holding the write guard               *)
(*   dropping  inside drop_executing, holding the write guard              *)
(***************************************************************************)
Untouched == <<hvars, fvars, pvars, now, pos, interaction, args, invoke, calls>>

CheckLock(d) ==
    /\ pc[d] = "hooks"
    /\ pos[d] = Len(Chain(d))
    /\ can_read(lock)
    /\ lock' = lock_read(lock, d)
    /\ pc' = [pc EXCEPT ![d] = "checking"]
    /\ UNCHANGED <<Untouched, executing, log>>

CheckUnlock(d) ==
    /\ pc[d] = "checking"
    /\ Checking(d, FALSE)
    /\ lock' = unlock(lock, d)
    /\ UNCHANGED <<Untouched, executing>>

SetLock(d) ==
    /\ pc[d] = "set"
    /\ can_write(lock)
    /\ lock' = lock_write(lock, d)
    /\ pc' = [pc EXCEPT ![d] = "setting"]
    /\ UNCHANGED <<Untouched, executing, log>>

SetUnlock(d) ==
    /\ pc[d] = "setting"
    /\ executing' = set_executing(executing, interaction[d].user, now)
    /\ lock' = unlock(lock, d)
    /\ pc' = [pc EXCEPT ![d] = "body"]
    /\ log' = [log EXCEPT ![d] = Append(@, Entry("set", interaction[d].user, "ok"))]
    /\ UNCHANGED Untouched

DropLock(d) ==
    /\ pc[d] = "drop"
    /\ can_write(lock)
    /\ lock' = lock_write(lock, d)
    /\ pc' = [pc EXCEPT ![d] = "dropping"]
    /\ UNCHANGED <<Untouched, executing, log>>

DropUnlock(d) ==
    /\ pc[d] = "dropping"
    /\ executing' = drop_executing(executing, interaction[d].user)
    /\ lock' = unlock(lock, d)
    /\ pc' = [pc EXCEPT ![d] = "done"]
    /\ log' = [log EXCEPT ![d] = Append(@, Entry("drop", interaction[d].user, "ok"))]
    /\ UNCHANGED Untouched

NoHandle ==
    /\ hnd = slash
    /\ trace = <<>>
    /\ crashed = FALSE

InitDispatches(n) ==
    /\ NoInput
    /\ executing = <<>>
    /\ lock = unlocked
    /\ now = 0
    /\ pc = [d \in 1..n |-> "idle"]
    /\ pos = [d \in 1..n |-> 0]
    /\ interaction = [d \in 1..n |->
                         [name |-> "-", user |-> "-", options |-> <<>>,
                          kind |-> "-", guild_id |-> None]]
    /\ args = [d \in 1..n |-> [command |-> "-", subcommand |-> None,
                               subcommand_group |-> None, options |-> <<>>]]
    /\ invoke = [d \in 1..n |-> slash]
    /\ calls = [d \in 1..n |-> <<>>]
    /\ log = [d \in 1..n |-> <<>>]

RECURSIVE AddHooks(_, _)
AddHooks(hs, order) ==
    IF order = <<>> THEN hs ELSE AddHooks(add_hook(hs, order[1]), Tail(order))

\* The command names the triggers of Spec carry: a registered command with
\* hooks of its own, and a name that is in no registry.
TriggerNames == {"remind", "bogus"}

\* Spec: the framework as main() builds it, and NumDispatches triggers.
Init ==
    /\ NoHandle
    /\ commands_map = add_command(add_command(<<>>, INFO_COMMAND), REMIND_COMMAND)
    /\ hooks = AddHooks(<<>>, GlobalHookOrder)
    /\ InitDispatches(NumDispatches)

Next ==
    \/ \E d \in Dispatches, u \in Users, name \in TriggerNames : Start(d, u, name)
    \/ \E d \in Dispatches, beh \in HookBehaviours, ok \in BOOLEAN : Hook(d, beh, ok)
    \/ \E d \in Dispatches : Check(d)
    \/ \E d \in Dispatches : Set(d)
    \/ \E d \in Dispatches, beh \in BodyBehaviours, ok \in BOOLEAN : Body(d, beh, ok)
    \/ \E d \in Dispatches : Drop(d)

Spec == Init /\ [][Next]_vars

\* SpecGuard: a framework whose one command has no hooks and no global hook
\* is registered, NumGuardDispatches triggers, and the clock.
InitGuard ==
    /\ NoHandle
    /\ commands_map = add_command(<<>>, INFO_COMMAND)
    /\ hooks = <<>>
    /\ InitDispatches(NumGuardDispatches)

NextGuard ==
    \/ \E d \in Dispatches, u \in Users : Start(d, u, "info")
    \/ \E d \in Dispatches : Check(d)
    \/ \E d \in Dispatches : Set(d)
    \/ \E d \in Dispatches : Body(d, "silent", TRUE)
    \/ \E d \in Dispatches : Drop(d)
    \/ Tick

SpecGuard == InitGuard /\ [][NextGuard]_vars

\* SpecLive: SpecGuard's framework and steps with NumLiveDispatches triggers.
\* Each dispatch is a task of its own on the runtime (serenity spawns one per
\* event), and none of its awaits waits for another dispatch longer than a
\* map access, so a dispatch that can take its next step eventually takes it.
InitLive ==
    /\ NoHandle
    /\ commands_map = add_command(<<>>, INFO_COMMAND)
    /\ hooks = <<>>
    /\ InitDispatches(NumLiveDispatches)

NextSeen ==
    \/ \E d \in Dispatches, u \in Users : Start(d, u, "info")
    \/ \E d \in Dispatches : CheckSeen(d)
    \/ \E d \in Dispatches : Set(d)
    \/ \E d \in Dispatches : Body(d, "silent", TRUE)
    \/ \E d \in Dispatches : Drop(d)
    \/ Tick

Step(d) == CheckSeen(d) \/ Set(d) \/ Body(d, "silent", TRUE) \/ Drop(d)

SpecLive ==
    /\ InitLive
    /\ [][NextSeen]_vars
    /\ \A d \in 1..NumLiveDispatches : WF_vars(Step(d))

\* SpecRace: SpecGuard's framework and clock, NumRaceDispatches triggers, all
\* of one user.
InitRace ==
    /\ NoHandle
    /\ commands_map = add_command(<<>>, INFO_COMMAND)
    /\ hooks = <<>>
    /\ InitDispatches(NumRaceDispatches)

NextRace ==
    \/ \E d \in Dispatches : Start(d, "u1", "info")
    \/ \E d \in Dispatches : CheckSeen(d)
    \/ \E d \in Dispatches : Set(d)
    \/ \E d \in Dispatches : Body(d, "silent", TRUE)
    \/ \E d \in Dispatches : Drop(d)
    \/ Tick

SpecRace == InitRace /\ [][NextRace]_vars

\* SpecLock: the framework as main() builds it, NumLockDispatches triggers
\* of the command with hooks, and the guard calls in two steps each.
InitLock ==
    /\ NoHandle
    /\ commands_map = add_command(add_command(<<>>, INFO_COMMAND), REMIND_COMMAND)
    /\ hooks = AddHooks(<<>>, GlobalHookOrder)
    /\ InitDispatches(NumLockDispatches)

NextLock ==
    \/ \E d \in Dispatches, u \in Users : Start(d, u, "remind")
    \/ \E d \in Dispatches, beh \in HookBehaviours, ok \in BOOLEAN : Hook(d, beh, ok)
    \/ \E d \in Dispatches : CheckLock(d)
    \/ \E d \in Dispatches : CheckUnlock(d)
    \/ \E d \in Dispatches : SetLock(d)
    \/ \E d \in Dispatches : SetUnlock(d)
    \/ \E d \in Dispatches, beh \in BodyBehaviours, ok \in BOOLEAN : Body(d, beh, ok)
    \/ \E d \in Dispatches : DropLock(d)
    \/ \E d \in Dispatches : DropUnlock(d)

SpecLock == InitLock /\ [][NextLock]_vars

(***************************************************************************)
(* Claims about the hook chain and the dispatcher, checked under Spec.     *)
(***************************************************************************)
IsHook(e) == e.step = "hook"

HookEntries(d) == SelectSeq(log[d], IsHook)

Steps(d) == {log[d][i].step : i \in 1..Len(log[d])}

Last(sq) == sq[Len(sq)]

\* The combined chain a dispatch is to run: the invoked command's own hooks
\* as declared, then the global hooks in the order main() registered them.
ExpectedChain(d) ==
    commands_map[interaction[d].name].hooks \o GlobalHookOrder

Halted(d) == \E i \in 1..Len(log[d]) : IsHook(log[d][i]) /\ log[d][i].res = "Halt"

\* C7: if the hook at position k of the combined chain returns Halt, hooks
\* k+1..n and the command body are never invoked for that dispatch, and hooks
\* 1..k-1 were invoked exactly once each, in registration order.
C7_HaltStopsDispatch ==
    \A d \in Dispatches :
        LET he == HookEntries(d)
        IN \A k \in 1..Len(he) :
              he[k].res = "Halt" =>
                 /\ Len(he) = k
                 /\ "body" \notin Steps(d)
                 /\ \A i \in 1..k : he[i].what = ExpectedChain(d)[i]
                 /\ \A i \in 1..(k - 1) : he[i].res = "Continue"

C7_Witness ==
    \E d \in Dispatches :
        /\ pc[d] = "halted"
        /\ Len(HookEntries(d)) = 3
        /\ HookEntries(d)[3].what = "check_self_permissions"
        /\ HookEntries(d)[3].res = "Halt"

PastHooks(d) ==
    pc[d] \in {"set", "body", "drop", "done", "denied"}
       \/ (pc[d] = "panicked" /\ "body" \in Steps(d))

\* C8: the invoked command's own hooks run in their declared order before
\* any global hook, the global hooks run in add_hook registration order, no
\* hook runs twice, a dispatch goes past the chain only when every hook has
\* run and returned Continue, and a hook is left out only after an earlier
\* hook halted (or panicked).
C8_HookOrder ==
    \A d \in Dispatches :
        LET he == HookEntries(d)
        IN IF interaction[d].name \notin DOMAIN commands_map
           THEN he = <<>>
           ELSE /\ Len(he) <= Len(ExpectedChain(d))
                /\ \A i \in 1..Len(he) : he[i].what = ExpectedChain(d)[i]
                /\ \A i, j \in 1..Len(he) : he[i].what = he[j].what => i = j
                /\ PastHooks(d) =>
                      /\ Len(he) = Len(ExpectedChain(d))
                      /\ \A i \in 1..Len(he) : he[i].res = "Continue"
                /\ (pc[d] # "hooks" /\ Len(he) < Len(ExpectedChain(d))) =>
                      /\ he # <<>>
                      /\ Last(he).res \in {"Halt", "panic"}

C8_Witness ==
    \E d \in Dispatches :
        /\ pc[d] = "done"
        /\ [i \in 1..Len(HookEntries(d)) |-> HookEntries(d)[i].what]
              = <<"check_guild", "check_role", "check_self_permissions",
                  "macro_check">>

GuardSteps == {"check", "set", "drop"}

\* C9: a dispatch aborted by a hook Halt performs no check_executing,
\* set_executing or drop_executing, none of its steps changes the guard map,
\* and it takes no step after the Halt.
C9_HaltLeavesGuardAlone ==
    /\ [](\A d \in Dispatches : Halted(d) => Steps(d) \cap GuardSteps = {})
    /\ [][\A d \in Dispatches :
             /\ (log'[d] # log[d] /\ Last(log'[d]).step \notin {"set", "drop"})
                   => executing' = executing
             /\ Halted(d) => (log'[d] = log[d] /\ pc'[d] = pc[d])]_vars

C9_Witness ==
    \E d \in Dispatches :
        /\ Halted(d)
        /\ pc[d] = "halted"
        /\ interaction[d].user \in DOMAIN executing

Denied(d) ==
    \E i \in 1..Len(log[d]) : log[d][i].step = "check" /\ log[d][i].res = "denied"

\* C10 as claimed: a dispatch denied by the admission guard has issued no
\* outbound response call of any kind.
C10_DeniedIssuedNoCall ==
    \A d \in Dispatches : Denied(d) => calls[d] = <<>>

\* C10, amended: from its admission check on, a denied dispatch does nothing
\* more. The check is its last step; the step that denies it issues no
\* outbound call, changes neither the handle nor the guard map and raises no
\* error; and it is never resumed, queued or retried.
C10_DeniedStopsAtCheck ==
    /\ [](\A d \in Dispatches :
             Denied(d) => /\ pc[d] = "denied"
                          /\ Last(log[d]).step = "check"
                          /\ Steps(d) \cap {"set", "body", "drop"} = {})
    /\ [][\A d \in Dispatches :
             Denied(d)' =>
                /\ calls'[d] = calls[d]
                /\ invoke'[d] = invoke[d]
                /\ ~Denied(d) => executing' = executing
                /\ Denied(d) => (log'[d] = log[d] /\ pc'[d] = pc[d])]_vars

C10_Witness ==
    \E d \in Dispatches :
        /\ Denied(d)
        /\ pc[d] = "denied"
        /\ Kinds(calls[d]) = <<"ack_deferred">>
        /\ \E e \in Dispatches \ {d} : pc[e] = "done"

(***************************************************************************)
(* Claims about the admission guard, checked under SpecGuard.              *)
(***************************************************************************)
BodyRan(d) == "body" \in Steps(d)

IsCheck(e) == e.step = "check"

CheckEntry(d) == SelectSeq(log[d], IsCheck)[1]

SameUser(d1, d2) ==
    /\ d1 # d2
    /\ pc[d1] # "idle"
    /\ pc[d2] # "idle"
    /\ interaction[d1].user = interaction[d2].user

\* C1: of two dispatches of one actor that both passed the hook chain, the
\* second making its admission check while the first is in flight (it has
\* passed its own check and its body has not returned) and less than the
\* debounce window after it, at most one runs the command body, whatever the
\* interleaving of their check, set and drop steps.
C1_OverlapYieldsOneBody ==
    \A d1, d2 \in Dispatches :
        (/\ SameUser(d1, d2)
         /\ "check" \in Steps(d2)
         /\ d1 \in CheckEntry(d2).with
         /\ now < DEBOUNCE_SECS)
            => ~(BodyRan(d1) /\ BodyRan(d2))

Guarded(d) == pc[d] \in {"body", "drop"}

\* C2 as claimed: no two dispatches of one actor are between set_executing
\* and drop_executing at the same time.
C2_MutualExclusion ==
    \A d1, d2 \in Dispatches : SameUser(d1, d2) => ~(Guarded(d1) /\ Guarded(d2))

\* C2, amended: two dispatches of one actor are between set_executing and
\* drop_executing at the same time only if the admission check of each found
\* no record of the actor younger than the debounce window.
C2_OverlapOnlyPastCheck ==
    \A d1, d2 \in Dispatches :
        (SameUser(d1, d2) /\ Guarded(d1) /\ Guarded(d2)) =>
            /\ CheckEntry(d1).res = "admitted" /\ ~CheckEntry(d1).young
            /\ CheckEntry(d2).res = "admitted" /\ ~CheckEntry(d2).young

C2_Witness ==
    \E d1, d2 \in Dispatches :
        /\ SameUser(d1, d2)
        /\ pc[d1] = "body"
        /\ pc[d2] = "body"
        /\ d1 \in CheckEntry(d2).with

(***************************************************************************)
(* The order of the steps of execute(), checked under Spec.                *)
(***************************************************************************)
StepSeq(d) == [i \in 1..Len(log[d]) |-> log[d][i].step]

StepRank(step) ==
    CASE step \in {"populate", "lookup"} -> 1
      [] step = "hook" -> 2
      [] step = "check" -> 3
      [] step = "set" -> 4
      [] step = "body" -> 5
      [] step = "drop" -> 6

\* The step that comes immediately before each step of the pipeline.
StepBefore(step) ==
    CASE step = "check" -> {"populate", "hook"}
      [] step = "set" -> {"check"}
      [] step = "body" -> {"set"}
      [] step = "drop" -> {"body"}
      [] step = "hook" -> {"populate", "hook"}
      [] OTHER -> {}

\* C17: the steps of every dispatch come in the order normalise options,
\* hook chain, admission check, record insert, command body, record removal,
\* none but a hook repeated and none skipped; the body runs at most once, and
\* only after every hook of the chain has returned Continue and the
\* admission check has admitted the dispatch.
C17_PipelineOrder ==
    \A d \in Dispatches :
        LET sq == StepSeq(d)
        IN /\ \A i \in 1..Len(sq) :
                 IF i = 1 THEN sq[i] \in {"populate", "lookup"}
                 ELSE /\ sq[i - 1] \in StepBefore(sq[i])
                      /\ StepRank(sq[i - 1]) <= StepRank(sq[i])
           /\ Cardinality({i \in 1..Len(sq) : sq[i] = "body"}) <= 1
           /\ (\E i \in 1..Len(sq) : sq[i] = "check") =>
                 /\ Len(HookEntries(d)) = Len(ExpectedChain(d))
                 /\ \A i \in 1..Len(HookEntries(d)) :
                       HookEntries(d)[i].res = "Continue"
           /\ (\E i \in 1..Len(sq) : sq[i] = "set") =>
                 CheckEntry(d).res = "admitted"

C17_Witness ==
    \E d \in Dispatches :
        /\ pc[d] = "done"
        /\ StepSeq(d) = <<"populate", "hook", "hook", "hook", "hook", "check",
                          "set", "body", "drop">>

(***************************************************************************)
(* Claims about release and re-admission.                                  *)
(***************************************************************************)
Holding(d) == pc[d] \in {"body", "drop"}

\* A dispatch of the same actor has completed and no dispatch of the actor
\* is between its set_executing and its drop_executing.
Released(d) ==
    /\ \E e \in Dispatches \ {d} :
          pc[e] = "done" /\ interaction[e].user = interaction[d].user
    /\ \A e \in Dispatches \ {d} :
          interaction[e].user = interaction[d].user => ~Holding(e)

\* C11: once a dispatch of an actor has completed and removed the record, a
\* further dispatch of the same actor making its admission check is admitted
\* whatever the time elapsed since the record was written, and an admitted
\* dispatch goes on to run the command body.
C11_AdmittedAfterCompletion ==
    /\ [][\A d \in Dispatches :
             (pc[d] = "hooks" /\ pc'[d] # "hooks" /\ Released(d))
                => (pc'[d] = "set" /\ interaction[d].user \notin DOMAIN executing)]_vars
    /\ \A d \in 1..NumLiveDispatches : (pc[d] = "set") ~> BodyRan(d)

C11_Witness ==
    \E d1, d2 \in Dispatches :
        /\ SameUser(d1, d2)
        /\ BodyRan(d1)
        /\ BodyRan(d2)
        /\ d1 \in CheckEntry(d2).finished
        /\ CheckEntry(d2).res = "admitted"
        /\ now < DEBOUNCE_SECS

\* C12: whenever the command body of an admitted dispatch has completed, with
\* success or with failure, the dispatch goes on to drop_executing: it is
\* about to remove the actor's record or has removed it.
C12_ReleaseOnCompletion ==
    \A d \in Dispatches : BodyRan(d) => pc[d] \in {"drop", "done"}

Checked(d) == "check" \in Steps(d)

\* C13: drop_executing removes the actor's record while another dispatch of
\* the actor is still running its body, and an admission check that finds no
\* record admits although that body is still running. The race itself is the
\* state C13_Witness describes.
C13_EarlyClear ==
    [][\A d \in Dispatches :
          /\ (pc[d] = "drop" /\ pc'[d] = "done" /\ Running(d) # {})
                => /\ interaction[d].user \notin DOMAIN executing'
                   /\ \A e \in Running(d) : pc'[e] = "body"
          /\ (pc[d] = "hooks" /\ pc'[d] # "hooks" /\ Running(d) # {}
                 /\ interaction[d].user \notin DOMAIN executing)
                => pc'[d] = "set"]_vars

\* d1 had written its record and was running its body when d2 was admitted;
\* d2 ran its body and returned after its drop_executing; d3 then made its
\* check, found no record and was admitted, d1 still running its body.
C13_Witness ==
    \E d1, d2, d3 \in Dispatches :
        /\ SameUser(d1, d2) /\ SameUser(d1, d3) /\ SameUser(d2, d3)
        /\ pc[d1] = "body"
        /\ pc[d2] = "done"
        /\ d1 \in CheckEntry(d2).running
        /\ Checked(d3)
        /\ CheckEntry(d3).res = "admitted"
        /\ ~CheckEntry(d3).held
        /\ d1 \in CheckEntry(d3).running
        /\ d2 \in CheckEntry(d3).finished
        /\ pc[d3] \in {"set", "body"}

(***************************************************************************)
(* The debounce rule, checked under SpecRace.                              *)
(***************************************************************************)
\* C18: a dispatch making its admission check is dropped iff the map holds
\* a record of its actor whose whole seconds elapsed are below 4; otherwise
\* it is admitted, and its set_executing writes the time of that moment as
\* the actor's record, whether or not the dispatch that wrote the old record
\* is still running its body. Neither step touches the rest of the map.
C18_DebounceRule ==
    [][\A d \in Dispatches :
          LET u == interaction[d].user
          IN /\ (pc[d] = "hooks" /\ pc'[d] # "hooks") =>
                   /\ pc'[d] = "denied" <=>
                         (u \in DOMAIN executing /\ now - executing[u] < 4)
                   /\ pc'[d] = "set" <=>
                         (u \notin DOMAIN executing \/ now - executing[u] >= 4)
                   /\ executing' = executing
             /\ (pc[d] = "set" /\ pc'[d] # "set") =>
                   /\ pc'[d] = "body"
                   /\ u \in DOMAIN executing'
                   /\ executing'[u] = now
                   /\ \A x \in DOMAIN executing \ {u} :
                         x \in DOMAIN executing' /\ executing'[x] = executing[x]
                   /\ DOMAIN executing' \subseteq DOMAIN executing \cup {u}]_vars

\* d2 met a record 4 s old or older whose writer d1 was still running its
\* body, was admitted and has written the current time over it.
C18_Witness ==
    \E d1, d2 \in Dispatches :
        /\ SameUser(d1, d2)
        /\ pc[d1] = "body"
        /\ pc[d2] = "body"
        /\ CheckEntry(d2).held
        /\ ~CheckEntry(d2).young
        /\ CheckEntry(d2).running = {d1}
        /\ CheckEntry(d2).finished = {}
        /\ \A e \in Dispatches \ {d1, d2} : pc[e] = "idle"
        /\ executing[interaction[d2].user] = now
        /\ now >= DEBOUNCE_SECS

(***************************************************************************)
(* The lock of the guard map, checked under SpecLock.                      *)
(***************************************************************************)
Holders == lock.readers \cup lock.writer

InMapAccess(d) == pc[d] \in {"checking", "setting", "dropping"}

\* C19: a dispatch holds the read or the write guard of the map only inside
\* check_executing, set_executing or drop_executing, never while its hooks
\* or its command body run; so when no dispatch is inside one of the three
\* calls the lock is free, however long hooks and bodies take, and a check,
\* an insert or a removal can take it.
C19_LockWrapsMapAccess ==
    /\ \A d \in Dispatches : d \in Holders => InMapAccess(d)
    /\ \A d \in Dispatches : pc[d] \in {"hooks", "body"} => d \notin Holders
    /\ (\A d \in Dispatches : ~InMapAccess(d)) =>
          (can_read(lock) /\ can_write(lock))

\* One dispatch is in its command body, having gone through check_executing
\* and set_executing, while another holds the write guard.
C19_Witness ==
    \E d1, d2 \in Dispatches :
        /\ pc[d1] = "body"
        /\ pc[d2] = "setting"
        /\ lock.writer = {d2}
        /\ d1 \notin Holders

(***************************************************************************)
(* Actors and the guard map, checked under SpecGuard.                      *)
(***************************************************************************)
\* The part of the guard map that belongs to user u.
OwnRecord(ex, u) == [x \in DOMAIN ex \cap {u} |-> ex[x]]

\* C20: the outcome of a dispatch's admission check is the one the check
\* gives on the actor's own record alone, with every other actor's record
\* taken out of the map; and no step of a dispatch inserts, removes or
\* changes the record of an actor other than its own. Hence the admit/drop
\* outcomes of an actor's dispatches are the same in any two executions that
\* differ only in the dispatches of other actors.
C20_ActorsDoNotInterfere ==
    [][\A d \in Dispatches :
          LET u == interaction'[d].user
          IN /\ (pc[d] = "hooks" /\ pc'[d] # "hooks") =>
                   (pc'[d] = "denied"
                       <=> check_executing(OwnRecord(executing, u), u, now))
             /\ log'[d] # log[d] =>
                   \A x \in Users \ {u} :
                       OwnRecord(executing', x) = OwnRecord(executing, x)]_vars

\* Two actors hold a record at once: a dispatch of the one is in its body on
\* a record written at second 0, a dispatch of the other is in its body on
\* a record written later, and a further dispatch of the latter was dropped
\* on that record.
C20_Witness ==
    \E d1, d2, d3 \in Dispatches :
        /\ pc[d1] = "body" /\ pc[d2] = "body" /\ pc[d3] = "denied"
        /\ interaction[d1].user # interaction[d2].user
        /\ interaction[d3].user = interaction[d2].user
        /\ DOMAIN executing = {interaction[d1].user, interaction[d2].user}
        /\ executing[interaction[d1].user] = 0
        /\ executing[interaction[d2].user] > 0

(***************************************************************************)
(* The registry lookup of execute(), checked under Spec.                   *)
(***************************************************************************)
Unknown(d) == pc[d] # "idle" /\ interaction[d].name \notin DOMAIN commands_map

\* C21: a dispatch whose command name is not in the registry panics at the
\* lookup, and the lookup is all it does: no CommandOptions is built, no hook
\* is run, no outbound call is made, the guard is neither read nor written,
\* and no command body is run.
C21_UnknownCommandAborts ==
    /\ [](\A d \in Dispatches :
             Unknown(d) =>
                /\ pc[d] = "panicked"
                /\ StepSeq(d) = <<"lookup">>
                /\ log[d][1].res = "panic"
                /\ args[d].command = "-"
                /\ pos[d] = 0
                /\ calls[d] = <<>>
                /\ invoke[d] = slash)
    /\ [][\A d \in Dispatches :
             Unknown(d)' =>
                /\ ~Unknown(d) => executing' = executing
                /\ Unknown(d) => (log'[d] = log[d] /\ pc'[d] = pc[d])]_vars

C21_Witness ==
    \E d, e \in Dispatches :
        /\ Unknown(d)
        /\ pc[d] = "panicked"
        /\ pc[e] = "body"
        /\ interaction[e].user = interaction[d].user
        /\ interaction[d].user \in DOMAIN executing

(***************************************************************************)
(* The normalizer on its own: SpecPopulate draws an interaction payload    *)
(* and applies CommandOptions::new and populate to it, as execute() does   *)
(* at framework.rs:730.                                                    *)
(***************************************************************************)
Node(kind, name, value, options) ==
    [kind |-> kind, name |-> name, value |-> value, options |-> options]

OptionNames == {"k1", "k2"}

\* The values a leaf of each kind is tried with: the value the platform
\* sends for the kind (ids travel as decimal strings) and another one.
LeafValues(kind) ==
    CASE kind = "String" -> {JStr("x"), JInt(5)}
      [] kind = "Integer" -> {JInt(5), JStr("x")}
      [] kind = "Boolean" -> {JBool(TRUE), JStr("x")}
      [] kind = "User" -> {JStr("42"), JStr("x")}
      [] kind = "Channel" -> {JStr("42"), JInt(5)}
      [] kind = "Role" -> {JStr("7"), JStr("x")}
      [] kind = "Mentionable" -> {JStr("42"), JInt(5)}
      [] kind = "Number" -> {JFloat("1.5"), JStr("x")}
      [] OTHER -> {JStr("x")}

\* "Attachment" is a kind match_option has no arm for.
LeafKinds == ValueKinds \cup {"Attachment"}

Leaves ==
    UNION {{Node(kind, name, Some(j), <<>>) :
               name \in OptionNames, j \in LeafValues(kind)} : kind \in LeafKinds}

LeafSeqs == UNION {[1..n -> Leaves] : n \in 0..MaxLeaves}

\* The shapes of a payload. The three the platform sends: leaves at the top,
\* under a subcommand, and under a subcommand of a subcommand group. And
\* four trees populate accepts as well: the first leaf at the top and the
\* others under a subcommand, the leaves spread over two subcommands or over
\* two groups, and a subcommand inside a subcommand.
Shapes == {"flat", "sub", "group", "split", "twosub", "twogroup", "subsub"}

Payload(shape, L) ==
    LET first == IF L = <<>> THEN <<>> ELSE <<Head(L)>>
        rest == IF L = <<>> THEN <<>> ELSE Tail(L)
    IN [shape |-> shape, leaves |-> L,
        options |->
           CASE shape = "flat" -> L
             [] shape = "sub" -> <<Node("SubCommand", "s", None, L)>>
             [] shape = "group" ->
                   <<Node("SubCommandGroup", "g", None,
                          <<Node("SubCommand", "s", None, L)>>)>>
             [] shape = "split" ->
                   first \o <<Node("SubCommand", "s", None, rest)>>
             [] shape = "twosub" ->
                   <<Node("SubCommand", "s", None, first),
                     Node("SubCommand", "t", None, rest)>>
             [] shape = "twogroup" ->
                   <<Node("SubCommandGroup", "g", None,
                          <<Node("SubCommand", "s", None, first)>>),
                     Node("SubCommandGroup", "h", None,
                          <<Node("SubCommand", "t", None, rest)>>)>>
             [] shape = "subsub" ->
                   <<Node("SubCommand", "s", None,
                          first \o <<Node("SubCommand", "t", None, rest)>>)>>]

InitPopulate ==
    /\ NoHandle
    /\ NoExecute
    /\ \E shape \in Shapes, L \in LeafSeqs : input = Payload(shape, L)
    /\ output = <<>>

Populate ==
    /\ output = <<>>
    /\ output' = <<populate(CommandOptions_new(REMIND_COMMAND), input.options)>>
    /\ UNCHANGED <<hvars, fvars, dvars, input>>

NextPopulate == Populate

SpecPopulate == InitPopulate /\ [][NextPopulate]_vars

\* The value of a leaf as the platform types it: ids are decimal strings.
WellTyped(leaf) ==
    LET j == leaf.value[1]
    IN CASE leaf.kind = "String" -> j.json = "string"
         [] leaf.kind = "Integer" -> j.json = "int"
         [] leaf.kind = "Boolean" -> j.json = "bool"
         [] leaf.kind \in {"User", "Channel", "Role", "Mentionable"} ->
                j.json = "string" /\ parse_u64(j.v) # None
         [] leaf.kind = "Number" -> j.json \in {"int", "float"}
         [] OTHER -> FALSE

TypedValue(leaf) ==
    [type |-> leaf.kind,
     v |-> IF leaf.kind \in {"User", "Channel", "Role", "Mentionable"}
           THEN parse_u64(leaf.value[1].v)[1]
           ELSE leaf.value[1].v]

\* The map name -> typed value of a sequence of leaves (a later leaf of the
\* same name replaces an earlier one).
TypedMap(L) ==
    [n \in {L[i].name : i \in DOMAIN L} |->
        LET last == CHOOSE i \in DOMAIN L :
                        /\ L[i].name = n
                        /\ \A j \in DOMAIN L : L[j].name = n => j <= i
        IN TypedValue(L[last])]

\* C22: for a payload whose leaves all carry well-typed values, populate
\* returns; subcommand_group and subcommand are Some(g) and Some(s) exactly
\* where the payload has a group node g and a subcommand node s, and None
\* otherwise; and options is exactly the map name -> typed value of the
\* leaves.
C22_NestedTreeResult ==
    (/\ output # <<>>
     /\ input.shape \in {"flat", "sub", "group"}
     /\ \A i \in DOMAIN input.leaves : WellTyped(input.leaves[i])) =>
        /\ ~output[1].panic
        /\ output[1].opts.command = "remind"
        /\ output[1].opts.subcommand_group =
               IF input.shape = "group" THEN Some("g") ELSE None
        /\ output[1].opts.subcommand =
               IF input.shape \in {"group", "sub"} THEN Some("s") ELSE None
        /\ output[1].opts.options = TypedMap(input.leaves)

\* The option nodes without those of an unrecognised kind.
RECURSIVE Strip(_)
Strip(options) ==
    IF options = <<>> THEN <<>>
    ELSE LET o == Head(options)
         IN IF o.kind \in ValueKinds \cup {"SubCommand", "SubCommandGroup"}
            THEN <<[o EXCEPT !.options = Strip(@)]>> \o Strip(Tail(options))
            ELSE Strip(Tail(options))

\* C23: a node of an unrecognised kind changes nothing: populate gives the
\* result it gives for the same payload without such nodes (the same keys
\* and values, the same subcommand and group, and it panics on the one
\* exactly when it panics on the other).
C23_UnrecognisedOmitted ==
    output # <<>> =>
        output[1] = populate(CommandOptions_new(REMIND_COMMAND), Strip(input.options))

C23_Witness ==
    /\ output # <<>>
    /\ input.shape = "group"
    /\ Len(input.leaves) = 2
    /\ input.leaves[1].kind = "Attachment"
    /\ input.leaves[1].name = "k1"
    /\ input.leaves[2].kind = "Integer"
    /\ ~output[1].panic
    /\ DOMAIN output[1].opts.options = {"k2"}
    /\ output[1].opts.subcommand = Some("s")

\* The names of the leaf nodes (neither subcommand nor subcommand group) of
\* an option tree, and those of them whose kind match_option recognises.
RECURSIVE LeafNames(_, _)
LeafNames(options, kinds) ==
    IF options = <<>> THEN {}
    ELSE LET o == Head(options)
         IN (CASE o.kind \in {"SubCommand", "SubCommandGroup"} ->
                     LeafNames(o.options, kinds)
               [] o.kind \in kinds -> {o.name}
               [] OTHER -> {})
            \cup LeafNames(Tail(options), kinds)

\* C24 as stated: when populate returns, the keys of options are the names
\* of all the leaf nodes of the payload.
C24_KeysAreAllLeaves ==
    (output # <<>> /\ ~output[1].panic) =>
        DOMAIN output[1].opts.options = LeafNames(input.options, LeafKinds)

\* C24: when populate returns, the keys of options are the names of the leaf
\* nodes of a recognised kind anywhere in the payload, each once.
C24_KeysAreRecognisedLeaves ==
    (output # <<>> /\ ~output[1].panic) =>
        DOMAIN output[1].opts.options = LeafNames(input.options, ValueKinds)

C24_Witness ==
    /\ output # <<>>
    /\ ~output[1].panic
    /\ input.shape = "sub"
    /\ Len(input.leaves) = 2
    /\ input.leaves[1].kind = "String"
    /\ input.leaves[2].kind = "Attachment"
    /\ input.leaves[1].name # input.leaves[2].name
    /\ DOMAIN output[1].opts.options = {input.leaves[1].name}

(***************************************************************************)
(* The text matchers compiled by RegexFramework::build                     *)
(* (framework.rs:593-653). A text is a sequence of characters; the two     *)
(* mentions of the bot, "<@ID>" and "<@!ID>" with ID the client id, are    *)
(* one symbol each. A match is None, or Some of the captures, found in the *)
(* order a leftmost-first regex engine tries the alternatives.             *)
(***************************************************************************)
Mention == "<@ID>"

MentionBang == "<@!ID>"

\* `\s` on the characters of the model.
Whitespace == {" ", "\n"}

\* case_insensitive(true): characters are compared by their case fold.
Lower(c) == IF c = "R" THEN "r" ELSE c

\* DEFAULT_PREFIX, when the environment does not set it.
DEFAULT_PREFIX == <<"$">>

\* The most characters `\S{1,5}?` takes.
PrefixMax == 5

TakeChars(text, k) == SubSeq(text, 1, k)

SkipChars(text, k) == SubSeq(text, k + 1, Len(text))

StartsWith(text, name) ==
    /\ Len(name) <= Len(text)
    /\ \A i \in 1..Len(name) : Lower(text[i]) = Lower(name[i])

\* The length of the longest run of whitespace text starts with.
WsRun(text) ==
    CHOOSE k \in 0..Len(text) :
        /\ \A i \in 1..k : text[i] \in Whitespace
        /\ k = Len(text) \/ text[k + 1] \notin Whitespace

\* The first attempt that matched, in the order of the sequence.
First(attempts) ==
    IF \A i \in DOMAIN attempts : attempts[i] = None THEN None
    ELSE attempts[CHOOSE i \in DOMAIN attempts :
                      /\ attempts[i] # None
                      /\ \A j \in 1..(i - 1) : attempts[j] = None]

\* A mutation of after_cmd: the rest of the text is the args, with no end of
\* text or whitespace required after the command name.
after_cmd_unanchored(rest) == Some(Some(rest))

\* `(?:$|\s+(?P<args>.*))$` with dot_matches_new_line: the end of the text,
\* or whitespace (as much as there is) and then everything as args.
after_cmd(rest) ==
    IF rest = <<>> THEN Some(None)
    ELSE IF WsRun(rest) >= 1 THEN Some(Some(SkipChars(rest, WsRun(rest))))
    ELSE None

\* `(?P<cmd>COMMANDS)` and what follows it: the alternatives in their order.
cmd_match(prefix, rest, alts) ==
    First([i \in DOMAIN alts |->
              IF ~StartsWith(rest, alts[i]) THEN None
              ELSE LET a == after_cmd(SkipChars(rest, Len(alts[i])))
                   IN IF a = None THEN None
                      ELSE Some([prefix |-> prefix,
                                 cmd |-> TakeChars(rest, Len(alts[i])),
                                 args |-> a[1]])])

\* `<@ID>\s*` (least = 0) and `<@ID>\s+` (least = 1): the mention and then
\* whitespace, the longest run first.
mention_attempts(text, symbol, least, alts) ==
    IF text = <<>> \/ text[1] # symbol THEN <<>>
    ELSE LET w == WsRun(SkipChars(text, 1))
         IN [j \in 1..(w + 1 - least) |->
                cmd_match(None, SkipChars(text, 1 + (w + 1 - j)), alts)]

\* A mutation of prefix_attempts: the prefix is the default prefix.
prefix_attempts_default(text, alts) ==
    <<IF StartsWith(text, DEFAULT_PREFIX)
      THEN cmd_match(Some(DEFAULT_PREFIX),
                     SkipChars(text, Len(DEFAULT_PREFIX)), alts)
      ELSE None>>

\* `(?P<prefix>\S{1,5}?)`: one to five characters that are not whitespace,
\* the fewest first. A mention is longer than five characters.
prefix_attempts(text, alts) ==
    [p \in 1..PrefixMax |->
        IF /\ p <= Len(text)
           /\ \A i \in 1..p : text[i] \notin Whitespace \cup {Mention, MentionBang}
        THEN cmd_match(Some(TakeChars(text, p)), SkipChars(text, p), alts)
        ELSE None]

\* The guild pattern (framework.rs:610).
command_matcher(text, alts) ==
    First(mention_attempts(text, Mention, 0, alts)
            \o mention_attempts(text, MentionBang, 0, alts)
            \o prefix_attempts(text, alts))

\* The DM pattern (framework.rs:640): a mention and whitespace, or "$", or
\* nothing, before the command name.
dm_regex_matcher(text, alts) ==
    First(mention_attempts(text, Mention, 1, alts)
            \o mention_attempts(text, MentionBang, 1, alts)
            \o <<IF text # <<>> /\ text[1] = "$"
                 THEN cmd_match(Some(<<"$">>), SkipChars(text, 1), alts)
                 ELSE None,
                 cmd_match(Some(<<>>), text, alts)>>)

\* sort_unstable_by_key(|a| a.len()): the orders of the names in which no
\* name comes before a shorter one. Names of one length come in any order
\* (the keys are read from a HashMap and the sort is not stable).
RECURSIVE sort_unstable_by_len(_)
sort_unstable_by_len(names) ==
    IF names = {} THEN {<<>>}
    ELSE UNION {{<<n>> \o rest : rest \in sort_unstable_by_len(names \ {n})} :
                   n \in {m \in names : \A o \in names : Len(m) <= Len(o)}}

\* "COMMANDS" replaced by the names joined with "|": without a name the
\* group is `(?P<cmd>)`, one alternative that matches the empty string.
Alternation(sorted) == IF sorted = <<>> THEN <<<<>>>> ELSE sorted

\* RegexFramework::build: the alternatives of the two patterns. The DM
\* pattern has the names whose command supports_dm.
build(cm) ==
    {[names |-> g, dm_names |-> d] :
        g \in sort_unstable_by_len(DOMAIN cm),
        d \in sort_unstable_by_len({n \in DOMAIN cm : cm[n].supports_dm})}

\* Framework::dispatch, the handler of a text message: its body is empty, so
\* it invokes no command.
dispatch(matchers, text) == None

(***************************************************************************)
(* SpecMatch: a registry is drawn and frozen, build compiles the patterns, *)
(* and a text message is matched against them, or handed to dispatch.      *)
(***************************************************************************)
Chars_remind == <<"r", "e", "m", "i", "n", "d">>

Chars_r == <<"r">>

Chars_todo == <<"t", "o", "d", "o">>

Chars_timer == <<"t", "i", "m", "e", "r">>

Chars_todos == <<"t", "o", "d", "o", "s">>

\* The commands a registry of SpecMatch is drawn from.
MatchCommands ==
    {[names |-> <<Chars_remind, Chars_r>>, hooks |-> <<>>, supports_dm |-> FALSE],
     [names |-> <<Chars_todo>>, hooks |-> <<>>, supports_dm |-> TRUE],
     [names |-> <<Chars_timer>>, hooks |-> <<>>, supports_dm |-> FALSE],
     [names |-> <<Chars_todos>>, hooks |-> <<>>, supports_dm |-> TRUE]}

RECURSIVE add_commands(_, _)
add_commands(cm, cs) ==
    IF cs = {} THEN cm
    ELSE LET c == CHOOSE x \in cs : TRUE
         IN add_commands(add_command(cm, c), cs \ {c})

\* "$" and up to MaxPad more characters.
RECURSIVE Pad(_)
Pad(k) == IF k = 0 THEN <<"$">> ELSE Append(Pad(k - 1), "x")

\* What a text begins with, its name token, and what follows it.
Heads ==
    {<<>>, <<"!">>, <<"$", " ">>,
     <<Mention>>, <<Mention, " ">>, <<Mention, " ", " ">>,
     <<MentionBang>>, <<MentionBang, " ">>}
        \cup {Pad(k) : k \in 0..MaxPad}

Tokens ==
    {<<>>, Chars_remind, Chars_r, Chars_todo, Chars_timer, Chars_todos,
     <<"R">>, <<"r", "e">>}

Tails == {<<>>, <<" ", "f", "o", "o">>, <<"\n", " ", "f", " ">>, <<"f">>}

Text(in) == in.head \o in.token \o in.tail

InitMatch ==
    /\ NoHandle
    /\ \E cs \in SUBSET MatchCommands : commands_map = add_commands(<<>>, cs)
    /\ hooks = <<>>
    /\ executing = <<>>
    /\ lock = unlocked
    /\ now = 0
    /\ pc = <<>>
    /\ pos = <<>>
    /\ interaction = <<>>
    /\ args = <<>>
    /\ invoke = <<>>
    /\ calls = <<>>
    /\ log = <<>>
    /\ input \in [head : Heads, token : Tokens, tail : Tails]
    /\ output = <<>>

\* build(), called once when the framework is assembled (main.rs:321).
Build ==
    /\ output = <<>>
    /\ \E matchers \in build(commands_map) : output' = <<matchers>>
    /\ UNCHANGED <<hvars, fvars, dvars, input>>

\* The two compiled patterns applied to the text.
Match ==
    /\ Len(output) = 1
    /\ output' = Append(output,
                        [op |-> "match",
                         guild |-> command_matcher(Text(input),
                                                   Alternation(output[1].names)),
                         dm |-> dm_regex_matcher(Text(input),
                                                 Alternation(output[1].dm_names))])
    /\ UNCHANGED <<hvars, fvars, dvars, input>>

\* A text message arrives: the client calls Framework::dispatch.
Dispatch ==
    /\ Len(output) = 1
    /\ output' = Append(output,
                        [op |-> "dispatch",
                         invoked |-> dispatch(output[1], Text(input))])
    /\ UNCHANGED <<hvars, fvars, dvars, input>>

NextMatch ==
    \/ Build
    \/ Match
    \/ Dispatch

SpecMatch == InitMatch /\ [][NextMatch]_vars

(***************************************************************************)
(* Claims about the matchers, checked under SpecMatch.                     *)
(***************************************************************************)
Matched == Len(output) = 2 /\ output[2].op = "match"

Dispatched == Len(output) = 2 /\ output[2].op = "dispatch"

Foo == <<"f", "o", "o">>

\* The token is a registered name or alias, letter case aside.
Registered(token, names) ==
    \E n \in names : Len(n) = Len(token) /\ StartsWith(token, n)

\* The forms "<@ID> n args", "<@!ID> n args" and "<default-prefix>n args"
\* begin with one of these.
ClaimHeads == {<<Mention, " ">>, <<MentionBang, " ">>, DEFAULT_PREFIX}

\* The name token of a text: what stands between the mention (and the
\* whitespace after it) or the default prefix, and the next whitespace or
\* the end of the text. None for a text that begins with neither.
NameToken(text) ==
    LET body ==
            IF text # <<>> /\ text[1] \in {Mention, MentionBang}
            THEN Some(SkipChars(text, 1 + WsRun(SkipChars(text, 1))))
            ELSE IF StartsWith(text, DEFAULT_PREFIX)
            THEN Some(SkipChars(text, Len(DEFAULT_PREFIX)))
            ELSE None
    IN IF body = None THEN None
       ELSE Some(TakeChars(body[1],
                           CHOOSE k \in 0..Len(body[1]) :
                               /\ \A i \in 1..k : body[1][i] \notin Whitespace
                               /\ k = Len(body[1]) \/ body[1][k + 1] \in Whitespace))

\* C25: the guild matcher accepts "<@ID> n foo", "<@!ID> n foo" and
\* "<default-prefix>n foo" for every registered name or alias n, with
\* cmd = n and args = "foo"; and every text it accepts has a name token,
\* after the mention or the default prefix, that is a registered name or
\* alias.
C25_GuildAcceptsAndRejects ==
    Matched =>
        LET m == output[2].guild
        IN /\ (/\ input.head \in ClaimHeads
               /\ input.token \in DOMAIN commands_map
               /\ input.tail = <<" ">> \o Foo) =>
                  (m # None /\ m[1].cmd = input.token /\ m[1].args = Some(Foo))
           /\ m # None =>
                  /\ NameToken(Text(input)) # None
                  /\ Registered(NameToken(Text(input))[1], DOMAIN commands_map)

ProperPrefix(short, long) == Len(short) < Len(long) /\ StartsWith(long, short)

\* C26: when a registered name is the beginning of a longer registered name,
\* a text carrying the longer name and the args "foo" is matched with cmd =
\* the longer name and args = "foo", and not with the shorter name as cmd.
C26_LongestNameWins ==
    Matched =>
        \A short, long \in DOMAIN commands_map :
            (/\ ProperPrefix(short, long)
             /\ input.head \in ClaimHeads
             /\ input.token = long
             /\ input.tail = <<" ">> \o Foo) =>
                /\ output[2].guild # None
                /\ output[2].guild[1].cmd = long
                /\ output[2].guild[1].cmd # short
                /\ output[2].guild[1].args = Some(Foo)

C26_Witness ==
    /\ Matched
    /\ {Chars_r, Chars_remind} \subseteq DOMAIN commands_map
    /\ output[1].names[1] = Chars_r
    /\ input = [head |-> DEFAULT_PREFIX, token |-> Chars_remind,
                tail |-> <<" ">> \o Foo]
    /\ output[2].guild = Some([prefix |-> Some(DEFAULT_PREFIX),
                               cmd |-> Chars_remind, args |-> Some(Foo)])

\* The names and aliases of the commands with supports_dm.
DmNames == {n \in DOMAIN commands_map : commands_map[n].supports_dm}

\* C27: the DM matcher accepts a text only with a cmd that is a name or alias
\* of a command with supports_dm; it rejects a text whose command token is a
\* name of a command without supports_dm, also where the guild matcher
\* accepts it; and it accepts a dm-eligible name with nothing before it.
C27_DmEligibleOnly ==
    Matched =>
        LET m == output[2].dm
        IN /\ m # None => Registered(m[1].cmd, DmNames)
           /\ (/\ input.head \in ClaimHeads \cup {<<>>}
               /\ input.token \in DOMAIN commands_map \ DmNames
               /\ input.tail \in {<<>>, <<" ">> \o Foo}) => m = None
           /\ (/\ input.head = <<>>
               /\ input.token \in DmNames
               /\ input.tail \in {<<>>, <<" ">> \o Foo}) =>
                  (m # None /\ m[1].cmd = input.token)

\* C28: the matchers built from an empty registry accept no text, and the DM
\* matcher built from a registry without a dm-eligible command accepts no
\* text.
C28_EmptyRegistryMatchesNothing ==
    Matched =>
        /\ DOMAIN commands_map = {} =>
               (output[2].guild = None /\ output[2].dm = None)
        /\ DmNames = {} => output[2].dm = None

\* C29: a text message that the guild pattern matches with a registered cmd
\* makes dispatch invoke that command, with the args capture as its
\* argument string.
C29_TextHandOff ==
    Dispatched =>
        LET m == command_matcher(Text(input), Alternation(output[1].names))
        IN (m # None /\ Registered(m[1].cmd, DOMAIN commands_map)) =>
              /\ output[2].invoked # None
              /\ Registered(m[1].cmd, Range(output[2].invoked[1].command.names))
              /\ output[2].invoked[1].args = m[1].args

\* The alternatives are in an order in which a name comes before every
\* shorter name, so before every name it begins with.
LongerFirst(alts) ==
    \A i, j \in DOMAIN alts :
        /\ i < j => Len(alts[i]) >= Len(alts[j])
        /\ ProperPrefix(alts[j], alts[i]) => i < j

\* C30: in both patterns built, the names are in non-increasing order of
\* length: a longer name precedes any shorter name it begins with.
C30_LongerNamesFirst ==
    Len(output) >= 1 =>
        (LongerFirst(output[1].names) /\ LongerFirst(output[1].dm_names))

\* All the orders of a set of names.
Orders(names) ==
    {q \in [1..Cardinality(names) -> names] :
        \A i, j \in 1..Cardinality(names) : q[i] = q[j] => i = j}

\* C31: for the names registered, what the guild matcher and the DM matcher
\* accept, and the prefix, cmd and args they capture, are the same for every
\* order of the alternatives in the pattern.
C31_OrderIndependent ==
    Matched =>
        /\ \A q \in Orders(DOMAIN commands_map) :
               command_matcher(Text(input), Alternation(q)) = output[2].guild
        /\ \A q \in Orders(DmNames) :
               dm_regex_matcher(Text(input), Alternation(q)) = output[2].dm

C31_Witness ==
    /\ Matched
    /\ Cardinality(DOMAIN commands_map) = 5
    /\ output[1].names[3] = Chars_todos
    /\ output[1].names[4] = Chars_timer
    /\ input.head = <<"$", "x">>
    /\ input.token = Chars_todo
    /\ input.tail = <<" ">> \o Foo
    /\ output[2].guild = Some([prefix |-> Some(<<"$", "x">>), cmd |-> Chars_todo,
                               args |-> Some(Foo)])
    /\ output[2].dm = None

\* The text reads as k characters that are not whitespace, then the name n,
\* then the end of the text or whitespace.
Reading(text, k, n) ==
    /\ k <= Len(text)
    /\ \A i \in 1..k : text[i] \notin Whitespace \cup {Mention, MentionBang}
    /\ StartsWith(SkipChars(text, k), n)
    /\ after_cmd(SkipChars(text, k + Len(n))) # None

\* C32 as stated: a text that reads as 1 to 5 characters and then a
\* registered name is accepted with that name as cmd, and a bare registered
\* name is rejected.
C32_AnyPrefixBareRejected ==
    Matched =>
        LET text == Text(input)
            m == output[2].guild
        IN /\ \A k \in 1..PrefixMax, n \in DOMAIN commands_map :
                  Reading(text, k, n) =>
                      (m # None /\ Registered(m[1].cmd, {n}))
           /\ (input.head = <<>> /\ input.token \in DOMAIN commands_map) =>
                  m = None

\* C32: a text that reads as 1 to 5 characters and then a registered name is
\* accepted by the guild matcher, whatever the characters are; of several
\* such readings the one with the fewest characters before the name gives
\* prefix and cmd. A text accepted without a mention has a prefix of 1 to 5
\* characters that are not whitespace, so a bare registered name is accepted
\* only where it reads as a prefix and another registered name.
C32_ShortestPrefixReading ==
    Matched =>
        LET text == Text(input)
            m == output[2].guild
        IN /\ \A k \in 1..PrefixMax, n \in DOMAIN commands_map :
                  Reading(text, k, n) =>
                      /\ m # None
                      /\ m[1].prefix # None
                      /\ Len(m[1].prefix[1]) <= k
                      /\ (\A j \in 1..(k - 1), o \in DOMAIN commands_map :
                              ~Reading(text, j, o)) =>
                             /\ m[1].prefix = Some(TakeChars(text, k))
                             /\ Registered(m[1].cmd, {n})
           /\ (m # None /\ text[1] \notin {Mention, MentionBang}) =>
                  /\ m[1].prefix # None
                  /\ Len(m[1].prefix[1]) \in 1..PrefixMax
                  /\ m[1].prefix[1] = TakeChars(text, Len(m[1].prefix[1]))
                  /\ \A i \in 1..Len(m[1].prefix[1]) : text[i] \notin Whitespace
           /\ (m # None /\ input.head = <<>> /\ input.token \in DOMAIN commands_map) =>
                  /\ Len(m[1].cmd) < Len(input.token)
                  /\ m[1].prefix[1] \o m[1].cmd = input.token

C32_Witness ==
    /\ Matched
    /\ {Chars_timer, Chars_r} \subseteq DOMAIN commands_map
    /\ input = [head |-> <<"!">>, token |-> Chars_timer, tail |-> <<" ">> \o Foo]
    /\ DEFAULT_PREFIX # <<"!">>
    /\ output[2].guild = Some([prefix |-> Some(<<"!">>), cmd |-> Chars_timer,
                               args |-> Some(Foo)])

(***************************************************************************)
(* The entry points: Handler::interaction_create (main.rs:249-272), which  *)
(* hands command triggers to execute(), and run_command_from_options       *)
(* (framework.rs:765-781).                                                 *)
(***************************************************************************)
\* A mutation of interaction_create: a command is executed with or without
\* a guild id.
interaction_create_any_guild(kind, guild_id) ==
    CASE kind = "ApplicationCommand" -> "execute"
      [] kind = "MessageComponent" -> "routed"
      [] OTHER -> "ignored"

\* The match of interaction_create: where an interaction of the kind goes.
interaction_create(kind, guild_id) ==
    CASE kind = "ApplicationCommand" ->
            IF guild_id = None THEN "discarded" ELSE "execute"
      [] kind = "MessageComponent" -> "routed"
      [] OTHER -> "ignored"

\* A mutation of run_command_from_options: a name that is not registered
\* runs the body of the first command registered.
run_command_from_options_default(cm, command_options, h, beh, ok) ==
    LET r == run_body(beh, h, ok)
    IN [found |-> TRUE, bodies |-> <<"info">>, panic |-> r.panic, h |-> r.h,
        issued |-> r.issued]

\* run_command_from_options: the lookup by command_options.command, then
\* the body; bodies are the primary names of the commands whose body ran.
run_command_from_options(cm, command_options, h, beh, ok) ==
    IF command_options.command \notin DOMAIN cm
    THEN [found |-> FALSE, bodies |-> <<>>, panic |-> TRUE, h |-> h,
          issued |-> <<>>]
    ELSE LET r == run_body(beh, h, ok)
         IN [found |-> TRUE, bodies |-> <<cm[command_options.command].names[1]>>,
             panic |-> r.panic, h |-> r.h, issued |-> r.issued]

InteractionKinds == {"ApplicationCommand", "MessageComponent", "Ping"}

GuildIds == {None, Some("g1")}

\* The names the triggers of SpecEntry carry: a primary name, an alias, and
\* a name that is in no registry.
EntryNames == {"remind", "r", "bogus"}

\* The option trees the triggers of SpecEntry carry: none, a well-typed
\* leaf, and leaves whose value is absent or of the wrong shape.
EntryOptions ==
    {<<>>,
     <<Node("String", "k1", Some(JStr("x")), <<>>)>>,
     <<Node("String", "k1", None, <<>>)>>,
     <<Node("User", "k1", Some(JStr("x")), <<>>)>>,
     <<Node("Mentionable", "k1", Some(JStr("42")), <<>>)>>}

\* The triggers of SpecEntry: the primary name with each option tree, the
\* alias with a well-typed leaf, and every name without options.
EntryTriggers ==
    {[name |-> "remind", options |-> o] : o \in EntryOptions}
        \cup {[name |-> "r",
               options |-> <<Node("String", "k1", Some(JStr("x")), <<>>)>>]}
        \cup {[name |-> n, options |-> <<>>] : n \in EntryNames}

\* The interactions of SpecEntry: a command trigger with or without a guild
\* id, and the other kinds, which name no command.
Interactions ==
    {[kind |-> "ApplicationCommand", guild_id |-> g, name |-> t.name,
      options |-> t.options] : t \in EntryTriggers, g \in GuildIds}
        \cup {[kind |-> k, guild_id |-> g, name |-> "-", options |-> <<>>] :
                 k \in InteractionKinds \ {"ApplicationCommand"}, g \in GuildIds}

\* An interaction arrives at interaction_create.
Deliver(d, u, name, kind, guild_id, options) ==
    LET route == interaction_create(kind, guild_id)
    IN IF route = "execute" THEN StartWith(d, u, name, options, guild_id)
       ELSE /\ pc[d] = "idle"
            /\ \A e \in Dispatches : e < d => pc[e] # "idle"
            /\ u \in NextUsers
            /\ interaction' = [interaction EXCEPT ![d] =
                                   [name |-> name, user |-> u, options |-> options,
                                    kind |-> kind, guild_id |-> guild_id]]
            /\ pc' = [pc EXCEPT ![d] = route]
            /\ log' = [log EXCEPT ![d] = <<Entry("interaction", kind, route)>>]
            /\ UNCHANGED <<hvars, fvars, pvars, lock, executing, now, pos, args,
                           invoke, calls>>

\* run_command_from_options is called with a handle of user u and options
\* that name a command.
RunFromOptions(d, u, name, h, beh, ok) ==
    /\ pc[d] = "idle"
    /\ \A e \in Dispatches : e < d => pc[e] # "idle"
    /\ u \in NextUsers
    /\ LET command_options ==
               [command |-> name, subcommand |-> None, subcommand_group |-> None,
                options |-> <<>>]
           r == run_command_from_options(commands_map, command_options, h, beh, ok)
       IN /\ interaction' = [interaction EXCEPT ![d] =
                                 [name |-> name, user |-> u, options |-> <<>>,
                                  kind |-> "-", guild_id |-> None]]
          /\ args' = [args EXCEPT ![d] = command_options]
          /\ invoke' = [invoke EXCEPT ![d] = r.h]
          /\ calls' = [calls EXCEPT ![d] = r.issued]
          /\ pc' = [pc EXCEPT ![d] = IF r.panic THEN "panicked" ELSE "returned"]
          /\ log' = [log EXCEPT ![d] =
                        <<Entry("from_options", name,
                                IF r.found THEN "ok" ELSE "panic")>>
                        \o [i \in DOMAIN r.bodies |->
                               Entry("body", r.bodies[i],
                                     IF r.panic THEN "panic" ELSE "ok")]]
    /\ UNCHANGED <<hvars, fvars, pvars, lock, executing, now, pos>>

\* SpecEntry: the framework as main() builds it, NumEntryDispatches
\* interactions or calls of run_command_from_options, all of one user; the
\* hooks and the bodies run by execute() make no call on the handle.
InitEntry ==
    /\ NoHandle
    /\ commands_map = add_command(add_command(<<>>, INFO_COMMAND), REMIND_COMMAND)
    /\ hooks = AddHooks(<<>>, GlobalHookOrder)
    /\ InitDispatches(NumEntryDispatches)

NextEntry ==
    \/ \E d \in Dispatches, i \in Interactions :
            Deliver(d, "u1", i.name, i.kind, i.guild_id, i.options)
    \/ \E d \in Dispatches, name \in EntryNames, beh \in {"silent", "respond"} :
            RunFromOptions(d, "u1", name, component, beh, TRUE)
    \/ \E d \in Dispatches, beh \in {"continue", "halt"} : Hook(d, beh, TRUE)
    \/ \E d \in Dispatches : Check(d)
    \/ \E d \in Dispatches : Set(d)
    \/ \E d \in Dispatches : Body(d, "silent", TRUE)
    \/ \E d \in Dispatches : Drop(d)

SpecEntry == InitEntry /\ [][NextEntry]_vars

(***************************************************************************)
(* Claims about the guard records and the other entry points.              *)
(***************************************************************************)
\* The dispatch has been delivered and execute() has neither returned nor
\* panicked.
Unfinished(d) == pc[d] \notin {"idle", "halted", "denied", "done", "panicked"}

\* C33: a record in the guard map belongs to an actor with a dispatch between
\* its set_executing and its drop_executing; and when no command body has
\* panicked and no dispatch is under way, the map is empty.
C33_NoLeakedRecords ==
    /\ \A u \in DOMAIN executing :
           \E d \in Dispatches :
               pc[d] # "idle" /\ interaction[d].user = u /\ Holding(d)
    /\ (/\ \A d \in Dispatches : ~Unfinished(d)
        /\ \A d \in Dispatches : pc[d] = "panicked" => ~BodyRan(d))
           => executing = <<>>

\* The dispatch is a call of run_command_from_options.
FromOptions(d) == log[d] # <<>> /\ log[d][1].step = "from_options"

\* C34: a call of run_command_from_options with a registered name runs the
\* body of that command once and nothing else: no hook, no check, set or drop
\* of the guard, and the guard map is as it was. With a name that is not
\* registered it panics at the lookup and runs no body.
C34_OptionsBypassPipeline ==
    /\ [](\A d \in Dispatches : FromOptions(d) =>
             /\ pos[d] = 0
             /\ IF interaction[d].name \in DOMAIN commands_map
                THEN /\ StepSeq(d) = <<"from_options", "body">>
                     /\ log[d][2].what = commands_map[interaction[d].name].names[1]
                     /\ pc[d] \in {"returned", "panicked"}
                ELSE /\ StepSeq(d) = <<"from_options">>
                     /\ pc[d] = "panicked"
                     /\ calls[d] = <<>>)
    /\ [][\A d \in Dispatches : FromOptions(d)' =>
             /\ ~FromOptions(d) => executing' = executing
             /\ FromOptions(d) => (log'[d] = log[d] /\ pc'[d] = pc[d])]_vars

C34_Witness ==
    \E d, e \in Dispatches :
        /\ FromOptions(d)
        /\ interaction[d].name = "remind"
        /\ pc[d] = "returned"
        /\ calls[d] # <<>>
        /\ Chain(d) # <<>>
        /\ pc[e] = "body"
        /\ e < d
        /\ check_executing(executing, interaction[d].user, now)

\* The value has the shape the leaf arm of its kind reads.
Shaped(kind, j) ==
    CASE kind = "String" -> j.json = "string"
      [] kind = "Integer" -> j.json = "int"
      [] kind = "Boolean" -> j.json = "bool"
      [] kind \in {"User", "Channel", "Role"} ->
            j.json = "string" /\ j.v \in {"7", "42"}
      [] kind = "Mentionable" -> j.json = "int" /\ j.v >= 0
      [] kind = "Number" -> j.json \in {"int", "float"}

\* A leaf of a recognised kind whose value is absent or of the wrong shape.
IllTyped(o) ==
    /\ o.kind \in ValueKinds
    /\ o.value = None \/ ~Shaped(o.kind, o.value[1])

\* The trigger reached execute() with a registered name and carries an
\* ill-typed leaf.
IllTypedTrigger(d) ==
    /\ log[d] # <<>>
    /\ log[d][1].step = "populate"
    /\ \E i \in DOMAIN interaction[d].options : IllTyped(interaction[d].options[i])

\* C35: a trigger with a leaf of a recognised kind whose value is absent or
\* of the wrong shape panics in populate and does nothing else: no options
\* are handed on, no hook runs, the guard map is neither read nor written,
\* no body runs and no call is made.
C35_IllTypedAborts ==
    /\ [](\A d \in Dispatches : IllTypedTrigger(d) =>
             /\ pc[d] = "panicked"
             /\ StepSeq(d) = <<"populate">>
             /\ log[d][1].res = "panic"
             /\ args[d].command = "-"
             /\ pos[d] = 0
             /\ calls[d] = <<>>)
    /\ [][\A d \in Dispatches : IllTypedTrigger(d)' =>
             /\ ~IllTypedTrigger(d) => executing' = executing
             /\ IllTypedTrigger(d) => (log'[d] = log[d] /\ pc'[d] = pc[d])]_vars

C35_Witness ==
    \E d, e \in Dispatches :
        /\ IllTypedTrigger(d)
        /\ interaction[d].options[1].kind = "String"
        /\ interaction[d].options[1].value = None
        /\ pc[d] = "panicked"
        /\ e < d
        /\ pc[e] = "body"
        /\ interaction[e].options # <<>>
        /\ DOMAIN args[e].options = {"k1"}

\* The interaction has arrived at interaction_create.
Arrived(d) == pc[d] # "idle" /\ interaction[d].kind \in InteractionKinds

\* interaction_create has done nothing with the interaction but return or
\* hand it on: there is no lookup, no options, no hook, no call, no body.
Untreated(d) ==
    /\ StepSeq(d) = <<"interaction">>
    /\ args[d].command = "-"
    /\ invoke[d] = slash
    /\ pos[d] = 0
    /\ calls[d] = <<>>

\* C36: a command trigger without a guild id is discarded by
\* interaction_create, whatever its name: nothing of execute() takes place
\* for it and the guard map stays as it is. A component callback is handed
\* to its own handler, and nothing of execute() takes place for it either.
C36_NoGuildDiscarded ==
    /\ [](\A d \in Dispatches : Arrived(d) =>
             /\ (/\ interaction[d].kind = "ApplicationCommand"
                 /\ interaction[d].guild_id = None)
                    => (pc[d] = "discarded" /\ Untreated(d))
             /\ interaction[d].kind = "MessageComponent"
                    => (pc[d] = "routed" /\ Untreated(d)))
    /\ [][\A d \in Dispatches :
             (Arrived(d)' /\ pc'[d] \in {"discarded", "routed"}) =>
                 /\ ~Arrived(d) => executing' = executing
                 /\ Arrived(d) => (log'[d] = log[d] /\ pc'[d] = pc[d])]_vars

C36_Witness ==
    \E d, e \in Dispatches :
        /\ Arrived(d)
        /\ interaction[d].kind = "ApplicationCommand"
        /\ interaction[d].guild_id = None
        /\ interaction[d].name = "bogus"
        /\ pc[d] = "discarded"
        /\ Arrived(e)
        /\ interaction[e].kind = "MessageComponent"
        /\ pc[e] = "routed"

\* execute() has built the options of the dispatch.
Populated(d) ==
    /\ log[d] # <<>>
    /\ log[d][1].step = "populate"
    /\ log[d][1].res = "ok"

\* C37: the options execute() hands to the hooks and to the body carry the
\* first name of the command the trigger resolved to, also when the trigger
\* used another of its names, the body that runs is logged under that name,
\* and the options stay as populate left them through every hook and the
\* body.
C37_PrimaryNameAndSameOptions ==
    /\ [](\A d \in Dispatches : Populated(d) =>
             /\ interaction[d].name \in DOMAIN commands_map
             /\ args[d].command = commands_map[interaction[d].name].names[1]
             /\ interaction[d].name \in {"remind", "r"} => args[d].command = "remind"
             /\ \A i \in 1..Len(log[d]) :
                    log[d][i].step = "body" => log[d][i].what = args[d].command)
    /\ [][\A d \in Dispatches : Populated(d) => args'[d] = args[d]]_vars

C37_Witness ==
    \E d \in Dispatches :
        /\ Populated(d)
        /\ interaction[d].name = "r"
        /\ args[d].command = "remind"
        /\ args[d].options # <<>>
        /\ Len(Chain(d)) > 1
        /\ pos[d] = Len(Chain(d))
        /\ pc[d] = "drop"

(***************************************************************************)
(* Claims about collisions in the flattening.                              *)
(***************************************************************************)
\* The nodes of an option tree in depth-first pre-order.
RECURSIVE Preorder(_)
Preorder(options) ==
    IF options = <<>> THEN <<>>
    ELSE <<Head(options)>> \o Preorder(Head(options).options)
             \o Preorder(Tail(options))

\* The positions of a sequence of nodes that hold a node of these kinds.
Of(nodes, kinds) == {i \in DOMAIN nodes : nodes[i].kind \in kinds}

Max(S) == CHOOSE i \in S : \A j \in S : j <= i

\* The name of the last node of these kinds, if there is one.
LastName(nodes, kinds) ==
    IF Of(nodes, kinds) = {} THEN None
    ELSE Some(nodes[Max(Of(nodes, kinds))].name)

\* The typed value x is the one extract gives for the leaf.
Holds(x, leaf) ==
    LET e == extract(leaf.kind, leaf.value)
    IN /\ e # None
       /\ x.type = e[1].type
       /\ x.v = e[1].v

\* C38: when populate returns, each key of the options map holds the value
\* of the last leaf of that name in the depth-first pre-order of the
\* payload, at whatever depth the leaves of that name are; subcommand holds
\* the name of the last subcommand node of that order and subcommand_group
\* the name of the last group node.
C38_LastWins ==
    (output # <<>> /\ ~output[1].panic) =>
        LET nodes == Preorder(input.options)
            leaves == Of(nodes, ValueKinds)
            opts == output[1].opts
        IN /\ DOMAIN opts.options = {nodes[i].name : i \in leaves}
           /\ \A n \in DOMAIN opts.options :
                  LET last == Max({i \in leaves : nodes[i].name = n})
                  IN Holds(opts.options[n], nodes[last])
           /\ opts.subcommand = LastName(nodes, {"SubCommand"})
           /\ opts.subcommand_group = LastName(nodes, {"SubCommandGroup"})

\* Two leaves of one name and different values under two groups.
C38_Witness ==
    /\ output # <<>>
    /\ ~output[1].panic
    /\ input.shape = "twogroup"
    /\ Len(input.leaves) = 2
    /\ input.leaves[1].name = input.leaves[2].name
    /\ input.leaves[1].kind \in ValueKinds
    /\ input.leaves[2].kind \in ValueKinds
    /\ Holds(output[1].opts.options[input.leaves[1].name], input.leaves[2])
    /\ ~Holds(output[1].opts.options[input.leaves[1].name], input.leaves[1])
    /\ output[1].opts.subcommand = Some("t")
    /\ output[1].opts.subcommand_group = Some("h")

====
